---- MODULE Spec2Model ----
(***************************************************************************)
(* Intersection and event detection engine of OTAnalytics, and the track   *)
(* cutting engine: tracks (sequences of detections) are intersected with   *)
(* line and area sections, crossings become events, and cutting sections   *)
(* split tracks into sub-tracks.                                            *)
(*                                                                         *)
(* Coordinates are integers (image space sampled on a grid), confidences   *)
(* are integers (tenths), occurrences are integer ticks.                   *)
(***************************************************************************)
EXTENDS Integers, Sequences, FiniteSets, Bags, TLC

VARIABLES
    tracks,        \* the tracks handed to the engine (track repository content)
    op,            \* the operation that ran last ("idle" before any)
    arg,           \* the sections the last operation was called with
    events,        \* the event list the last operation returned
    error,         \* the exception the last operation raised ("none" if it returned)
    eventBuilder,  \* fields of the event builder after the last operation
    trackBuilder,  \* SimpleCutTrackSegmentBuilder: _track_id, _detections
    cutTracks,     \* the sub-tracks the last cutting call returned
    calls,         \* number of calls made on the cutter instance / the event repository
    tasks,         \* parallel execution: the (track, sections) work items
    taken,         \* parallel execution: task index -> worker that took it (0: none)
    finished,      \* parallel execution: task indices in completion order
    results,       \* parallel execution: task index -> event list (once finished)
    eventRepository, \* EventRepository: the stored events and the notifications sent
    sectionRepository, \* SectionRepository: the sections held
    observers,     \* how often ClearAllEvents is registered with each subject
    stale,         \* history: the event repository holds events added before the
                   \* most recent change of the tracks or the sections
    trackRepositories \* TrackRepository: the dict objects and, for every
                   \* instance, the dict its attribute tracks refers to

vars == <<tracks, op, arg, events, error, eventBuilder, trackBuilder, cutTracks,
          calls, tasks, taken, finished, results, eventRepository,
          sectionRepository, observers, stale, trackRepositories>>

----------------------------------------------------------------------------
(* Bounds of the model *)

\* longest track of the intersection specifications
MaxDetections == 3
\* largest x coordinate of a detection
MaxX == 2
\* longest track of the cutting specification
MaxCutDetections == 4
\* cutting calls made on one cutter instance
MaxCutCalls == 2
\* worker processes of the pool
NumProcesses == 2
\* tracks of one parallel intersection pass
MaxTracks == 3
\* calls made on one event repository
MaxRepositoryCalls == 2
\* longest coordinate list an area is constructed from
MaxRing == 5
\* detections of a track of the splitting specification
MaxSplitDetections == 4
MaxLongDetections == 6
MaxBuilderDetections == 3
MaxClearCalls == 3
\* registrations of one observer with the section list subject
MaxRegistrations == 2
MaxRepositories == 2

\* None, where a string is expected, where a record is expected and where a
\* track id is expected
None == "None"
NoneRecord == [none |-> TRUE]
NoTrackId == <<>>

----------------------------------------------------------------------------
(* Geometry primitives: Coordinate, Line, Polygon and the predicates of    *)
(* the IntersectImplementation (shapely semantics: intersects includes     *)
(* touching; contains excludes the boundary).                              *)

Coordinate(x, y) == [x |-> x, y |-> y]

Sign(n) == IF n > 0 THEN 1 ELSE IF n < 0 THEN -1 ELSE 0

Min2(a, b) == IF a <= b THEN a ELSE b
Max2(a, b) == IF a >= b THEN a ELSE b

\* orientation of c relative to the directed line a -> b
Orient(a, b, c) == Sign((b.x - a.x) * (c.y - a.y) - (b.y - a.y) * (c.x - a.x))

\* p, known collinear with a and b, lies on the closed segment a b
InBox(a, b, p) ==
    /\ Min2(a.x, b.x) <= p.x /\ p.x <= Max2(a.x, b.x)
    /\ Min2(a.y, b.y) <= p.y /\ p.y <= Max2(a.y, b.y)

\* the closed segments p1 p2 and q1 q2 share at least one point
SegmentsIntersect(p1, p2, q1, q2) ==
    LET o1 == Orient(p1, p2, q1)
        o2 == Orient(p1, p2, q2)
        o3 == Orient(q1, q2, p1)
        o4 == Orient(q1, q2, p2)
    IN  \/ (o1 * o2 < 0 /\ o3 * o4 < 0)
        \/ (o1 = 0 /\ InBox(p1, p2, q1))
        \/ (o2 = 0 /\ InBox(p1, p2, q2))
        \/ (o3 = 0 /\ InBox(q1, q2, p1))
        \/ (o4 = 0 /\ InBox(q1, q2, p2))

\* IntersectImplementation.line_intersects_line: two polylines (sequences of
\* coordinates) share at least one point
line_intersects_line(a, b) ==
    \E i \in 1..(Len(a) - 1) : \E j \in 1..(Len(b) - 1) :
        SegmentsIntersect(a[i], a[i + 1], b[j], b[j + 1])

\* twice the signed area of the triangle a b c
Cross(a, b, c) == (b.x - a.x) * (c.y - a.y) - (b.y - a.y) * (c.x - a.x)

\* the segment p q crosses the segment a b in a point that is neither p nor q
CrossesInside(p, q, a, b) ==
    /\ Orient(a, b, p) * Orient(a, b, q) < 0
    /\ Orient(p, q, a) * Orient(p, q, b) <= 0

\* v lies on the closed segment a b
OnSegment(a, b, v) == Orient(a, b, v) = 0 /\ InBox(a, b, v)

\* the point in which p q crosses a b; its coordinates are fractions
\* <<numerator, denominator>>
IntersectionPoint(p, q, a, b) ==
    Coordinate(<<p.x * (Cross(a, b, p) - Cross(a, b, q)) + Cross(a, b, p) * (q.x - p.x),
                 Cross(a, b, p) - Cross(a, b, q)>>,
               <<p.y * (Cross(a, b, p) - Cross(a, b, q)) + Cross(a, b, p) * (q.y - p.y),
                 Cross(a, b, p) - Cross(a, b, q)>>)

\* the sub-lines closed so far (st[1]) and the open one (st[2]) after the
\* segment i of the line: a crossing inside the segment ends the open
\* sub-line in the intersection point and starts the next one there; an
\* inner vertex on the splitter ends the open sub-line and starts the next
SplitStep(st, line, a, b, i) ==
    LET p == line[i]
        q == line[i + 1]
        crossed == CrossesInside(p, q, a, b)
        closed == IF crossed
                    THEN Append(st[1], Append(st[2], IntersectionPoint(p, q, a, b)))
                    ELSE st[1]
        open == IF crossed THEN <<IntersectionPoint(p, q, a, b), q>>
                ELSE Append(st[2], q)
    IN  IF i + 1 < Len(line) /\ OnSegment(a, b, q)
          THEN <<Append(closed, open), <<q>>>>
          ELSE <<closed, open>>

RECURSIVE SplitLoop(_, _, _, _, _)
SplitLoop(st, line, a, b, i) ==
    IF i > Len(line) - 1 THEN Append(st[1], st[2])
    ELSE SplitLoop(SplitStep(st, line, a, b, i), line, a, b, i + 1)

\* what is left of a split: nothing (None) when the line was not split
SplitResult(pieces) == IF Len(pieces) < 2 THEN <<>> ELSE pieces

\* IntersectImplementation.split_line_with_line: the line partitioned at
\* every point it shares with the splitter, the sub-lines in the order of
\* the line's points and holding every point of the line, one that repeats
\* the point before it included; <<>> (None) if it is not split
split_line_with_line(line, splitter) ==
    SplitResult(SplitLoop(<<<<>>, <<line[1]>>>>, line, splitter[1], splitter[2], 1))

\* p lies on the boundary of the ring
OnRing(ring, p) ==
    \E i \in 1..(Len(ring) - 1) :
        Orient(ring[i], ring[i + 1], p) = 0 /\ InBox(ring[i], ring[i + 1], p)

\* the edge a b of a ring is crossed by the ray from p towards +x
RayCrosses(a, b, p) ==
    /\ (a.y > p.y) # (b.y > p.y)
    /\ IF b.y > a.y
         THEN (p.x - a.x) * (b.y - a.y) < (p.y - a.y) * (b.x - a.x)
         ELSE (p.x - a.x) * (b.y - a.y) > (p.y - a.y) * (b.x - a.x)

\* p lies in the interior of the polygon bounded by the ring
coordinate_within_polygon(p, ring) ==
    /\ ~OnRing(ring, p)
    /\ Cardinality({i \in 1..(Len(ring) - 1) : RayCrosses(ring[i], ring[i + 1], p)}) % 2 = 1

\* IntersectImplementation.are_coordinates_within_polygon: one boolean per point
are_coordinates_within_polygon(coordinates, ring) ==
    [i \in 1..Len(coordinates) |-> coordinate_within_polygon(coordinates[i], ring)]

----------------------------------------------------------------------------
(* Track and detection data model *)

EventTypes == {"section-enter", "section-leave", "enter-scene", "leave-scene"}
SECTION_ENTER == "section-enter"
SECTION_LEAVE == "section-leave"
ENTER_SCENE == "enter-scene"
LEAVE_SCENE == "leave-scene"

\* Detection: a video name is kept as its "_"-separated parts
Detection(classification, confidence, x, y, w, h, frame, occurrence, track_id, video_name) ==
    [x |-> x, y |-> y, classification |-> classification,
     confidence |-> confidence, w |-> w, h |-> h, frame |-> frame,
     occurrence |-> occurrence, track_id |-> track_id,
     video_name |-> video_name, interpolated_detection |-> FALSE]

\* sorted(detections, key=occurrence) is a stable sort: it returns the list
\* unchanged exactly when the occurrences are non-decreasing
SortedByOccurrence(detections) ==
    \A i \in 1..(Len(detections) - 1) :
        detections[i].occurrence <= detections[i + 1].occurrence

\* fault seeded for C14: the order of the detections is not validated
Track_validate_LengthOnly(id, detections) ==
    IF Len(detections) < 2 THEN "BuildTrackWithSingleDetectionError" ELSE "none"

\* fault seeded for C15: equal occurrences are rejected as well
Track_validate_Strict(id, detections) ==
    IF Len(detections) < 2 THEN "BuildTrackWithSingleDetectionError"
    ELSE IF \E i \in 1..(Len(detections) - 1) :
                detections[i].occurrence >= detections[i + 1].occurrence
      THEN "ValueError"
    ELSE "none"

\* fault seeded for C13: the number of detections is not validated
Track_validate_SortedOnly(id, detections) ==
    IF ~SortedByOccurrence(detections) THEN "ValueError" ELSE "none"

\* Track._validate: the exception the constructor raises, "none" if it returns
Track_validate(id, detections) ==
    IF Len(detections) < 2 THEN "BuildTrackWithSingleDetectionError"
    ELSE IF ~SortedByOccurrence(detections) THEN "ValueError"
    ELSE "none"

Track(id, classification, detections) ==
    [classification |-> classification, detections |-> detections, id |-> id]

\* position of a label among the keys of the dict (0: absent)
KeyIndex(keys, label) ==
    IF \E i \in 1..Len(keys) : keys[i] = label
      THEN CHOOSE i \in 1..Len(keys) : keys[i] = label
      ELSE 0

\* the dict built by the loop of calculate: keys in insertion order and their sums
RECURSIVE ClassificationSums(_, _, _)
ClassificationSums(detections, i, dict) ==
    IF i > Len(detections) THEN dict
    ELSE LET d == detections[i]
             k == KeyIndex(dict.keys, d.classification)
         IN  IF k # 0 /\ dict.sums[k] # 0
               THEN ClassificationSums(detections, i + 1,
                        [dict EXCEPT !.sums[k] = @ + d.confidence])
             ELSE IF k # 0
               THEN ClassificationSums(detections, i + 1,
                        [dict EXCEPT !.sums[k] = d.confidence])
             ELSE ClassificationSums(detections, i + 1,
                        [keys |-> Append(dict.keys, d.classification),
                         sums |-> Append(dict.sums, d.confidence)])

\* fault seeded for C25: among the keys with the maximal sum the last wins
MaxKey_LastMaximal(dict) ==
    LET best == CHOOSE i \in 1..Len(dict.keys) :
                    /\ \A j \in 1..Len(dict.keys) : dict.sums[j] <= dict.sums[i]
                    /\ \A j \in (i + 1)..Len(dict.keys) : dict.sums[j] < dict.sums[i]
    IN  dict.keys[best]

\* max(classifications, key=...): the first key, in insertion order, whose sum is maximal
MaxKey(dict) ==
    LET best == CHOOSE i \in 1..Len(dict.keys) :
                    /\ \A j \in 1..Len(dict.keys) : dict.sums[j] <= dict.sums[i]
                    /\ \A j \in 1..(i - 1) : dict.sums[j] < dict.sums[i]
    IN  dict.keys[best]

\* fault seeded for C6: the label of the first detection is taken
CalculateFirstDetection(detections) == detections[1].classification

\* CalculateTrackClassificationByMaxConfidence.calculate (non-empty list)
CalculateTrackClassificationByMaxConfidence(detections) ==
    MaxKey(ClassificationSums(detections, 1, [keys |-> <<>>, sums |-> <<>>]))

----------------------------------------------------------------------------
(* Sections *)

\* a dict is the sequence of its <<key, value>> pairs in insertion order
EmptyDict == <<>>

\* key in dict
DictHas(dict, key) == \E i \in 1..Len(dict) : dict[i][1] = key

\* dict[key]
DictGet(dict, key) == dict[CHOOSE i \in 1..Len(dict) : dict[i][1] = key][2]

\* dict[key] = value
DictSet(dict, key, value) ==
    IF DictHas(dict, key)
      THEN [i \in 1..Len(dict) |-> IF dict[i][1] = key THEN <<key, value>> ELSE dict[i]]
    ELSE Append(dict, <<key, value>>)

\* del dict[key]
DictDel(dict, key) ==
    LET Other(pair) == pair[1] # key
    IN  SelectSeq(dict, Other)

\* dict.update(other), from the k-th pair of other on
RECURSIVE DictUpdate(_, _, _)
DictUpdate(dict, other, k) ==
    IF k > Len(other) THEN dict
    ELSE DictUpdate(DictSet(dict, other[k][1], other[k][2]), other, k + 1)

LineSection(id, offsets, plugin_data, start, end) ==
    [id |-> id, plugin_data |-> plugin_data, start |-> start,
     end |-> end, kind |-> "line",
     relative_offset_coordinates |-> offsets]

Area(id, offsets, plugin_data, coordinates) ==
    [coordinates |-> coordinates, id |-> id, plugin_data |-> plugin_data,
     kind |-> "area", relative_offset_coordinates |-> offsets]

\* fault seeded for C16: only the x coordinates are compared
LineSection_validate_ComparesX(start, end) ==
    IF start.x = end.x THEN "ValueError" ELSE "none"

\* LineSection._validate
LineSection_validate(start, end) == IF start = end THEN "ValueError" ELSE "none"

\* fault seeded for C17: a list of three coordinates is accepted
Area_validate_AcceptsThree(coordinates) ==
    IF Len(coordinates) < 3 THEN "ValueError"
    ELSE IF coordinates[1] # coordinates[Len(coordinates)] THEN "ValueError"
    ELSE "none"

\* Area._validate
Area_validate(coordinates) ==
    IF Len(coordinates) < 4 THEN "ValueError"
    ELSE IF coordinates[1] # coordinates[Len(coordinates)] THEN "ValueError"
    ELSE "none"

\* Section.get_coordinates
get_coordinates(section) ==
    IF section.kind = "line" THEN <<section.start, section.end>>
    ELSE section.coordinates

\* Section.get_offset
get_offset(section, event_type) == section.relative_offset_coordinates[event_type]

----------------------------------------------------------------------------
(* Events and event builders *)

Event(road_user_id, road_user_type, hostname, occurrence, frame_number, section_id, event_coordinate, event_type, direction_vector, video_name) ==
    [occurrence |-> occurrence, video_name |-> video_name,
     event_type |-> event_type, road_user_id |-> road_user_id,
     road_user_type |-> road_user_type, hostname |-> hostname,
     frame_number |-> frame_number, section_id |-> section_id,
     event_coordinate |-> event_coordinate, direction_vector |-> direction_vector]

\* SectionEventBuilder() / SceneEventBuilder(): nothing set
SectionEventBuilder ==
    [kind |-> "section", event_type |-> None, road_user_type |-> None,
     section_id |-> None, event_coordinate |-> NoneRecord,
     direction_vector |-> NoneRecord]

SceneEventBuilder ==
    [kind |-> "scene", event_type |-> None, road_user_type |-> None,
     section_id |-> None, event_coordinate |-> NoneRecord,
     direction_vector |-> NoneRecord]

add_section_id(builder, section_id) == [builder EXCEPT !.section_id = section_id]
add_event_type(builder, event_type) == [builder EXCEPT !.event_type = event_type]
add_road_user_type(builder, road_user_type) ==
    [builder EXCEPT !.road_user_type = road_user_type]
add_direction_vector(builder, vector) == [builder EXCEPT !.direction_vector = vector]
add_event_coordinate(builder, x, y) ==
    [builder EXCEPT !.event_coordinate = Coordinate(x, y)]

\* EventBuilder.extract_hostname: the part before the first "_"
extract_hostname_error(video_name) ==
    IF Len(video_name) < 2 THEN "ImproperFormattedFilename" ELSE "none"
extract_hostname(video_name) == video_name[1]

\* fault seeded for C18: the event coordinate is not required
create_event_error_SkipsCoordinate(builder, detection) ==
    IF builder.kind = "section" /\ builder.section_id = None
      THEN "IncompleteEventBuilderSetup"
    ELSE IF builder.event_type = None THEN "IncompleteEventBuilderSetup"
    ELSE IF builder.direction_vector = NoneRecord THEN "IncompleteEventBuilderSetup"
    ELSE extract_hostname_error(detection.video_name)

\* create_event: the exception it raises, "none" if it returns an event
create_event_error(builder, detection) ==
    IF builder.kind = "section" /\ builder.section_id = None
      THEN "IncompleteEventBuilderSetup"
    ELSE IF builder.event_type = None THEN "IncompleteEventBuilderSetup"
    ELSE IF builder.direction_vector = NoneRecord THEN "IncompleteEventBuilderSetup"
    ELSE IF builder.event_coordinate = NoneRecord THEN "IncompleteEventBuilderSetup"
    ELSE extract_hostname_error(detection.video_name)

\* create_event: the event stamped from the detection
create_event(builder, detection) ==
    Event(detection.track_id, builder.road_user_type,
          extract_hostname(detection.video_name), detection.occurrence,
          detection.frame,
          IF builder.kind = "section" THEN builder.section_id ELSE None,
          builder.event_coordinate, builder.event_type,
          builder.direction_vector, detection.video_name)

\* what an intersect call hands back: the events, the builder it mutated and
\* the exception that ended it ("none" if it returned)
Returned(evs, builder) == [events |-> evs, error |-> "none", builder |-> builder]
Raised(err, builder) == [events |-> <<>>, error |-> err, builder |-> builder]

\* create_event and events.append, or the exception
AppendEvent(st, builder, detection) ==
    IF create_event_error(builder, detection) # "none"
      THEN Raised(create_event_error(builder, detection), builder)
      ELSE Returned(Append(st.events, create_event(builder, detection)), builder)

\* Intersector._select_coordinate_in_detection
select_coordinate_in_detection(detection, offset) ==
    Coordinate(detection.x + detection.w * offset.x,
               detection.y + detection.h * offset.y)

\* Intersector._calculate_direction_vector
calculate_direction_vector(first, second) ==
    [x1 |-> second.x - first.x, x2 |-> second.y - first.y]

\* the track as a polyline of sampled coordinates
track_coordinates(track, offset) ==
    [i \in 1..Len(track.detections) |->
        select_coordinate_in_detection(track.detections[i], offset)]

----------------------------------------------------------------------------
(* Intersection strategies *)

\* fault seeded for C1: the event of a crossing pair is created from the
\* earlier detection of the pair
SmallestSegmentsStep_StampsCurrent(st, track, line_section_as_geometry, offset, i) ==
    LET current_detection == track.detections[i]
        next_detection == track.detections[i + 1]
        current_detection_coordinate ==
            select_coordinate_in_detection(current_detection, offset)
        next_detection_coordinate ==
            select_coordinate_in_detection(next_detection, offset)
    IN  IF line_intersects_line(line_section_as_geometry,
                <<current_detection_coordinate, next_detection_coordinate>>)
          THEN AppendEvent(st,
                   add_event_coordinate(
                       add_direction_vector(st.builder,
                           calculate_direction_vector(current_detection_coordinate,
                                                      next_detection_coordinate)),
                       next_detection_coordinate.x, next_detection_coordinate.y),
                   current_detection)
          ELSE st

\* fault seeded for C19: a direction vector the reused builder already holds
\* is kept
SmallestSegmentsStep_KeepsDirection(st, track, line_section_as_geometry, offset, i) ==
    LET current_detection == track.detections[i]
        next_detection == track.detections[i + 1]
        current_detection_coordinate ==
            select_coordinate_in_detection(current_detection, offset)
        next_detection_coordinate ==
            select_coordinate_in_detection(next_detection, offset)
        with_direction ==
            IF st.builder.direction_vector = NoneRecord
              THEN add_direction_vector(st.builder,
                       calculate_direction_vector(current_detection_coordinate,
                                                  next_detection_coordinate))
              ELSE st.builder
    IN  IF line_intersects_line(line_section_as_geometry,
                <<current_detection_coordinate, next_detection_coordinate>>)
          THEN AppendEvent(st,
                   add_event_coordinate(with_direction,
                       next_detection_coordinate.x, next_detection_coordinate.y),
                   next_detection)
          ELSE st

\* one iteration of the loop of SimpleIntersectBySmallestTrackSegments.intersect
\* over the pair (detections[i], detections[i + 1])
SmallestSegmentsStep(st, track, line_section_as_geometry, offset, i) ==
    LET current_detection == track.detections[i]
        next_detection == track.detections[i + 1]
        current_detection_coordinate ==
            select_coordinate_in_detection(current_detection, offset)
        next_detection_coordinate ==
            select_coordinate_in_detection(next_detection, offset)
        detection_as_geometry ==
            <<current_detection_coordinate, next_detection_coordinate>>
        intersects ==
            line_intersects_line(line_section_as_geometry, detection_as_geometry)
    IN  IF intersects
          THEN AppendEvent(st,
                   add_event_coordinate(
                       add_direction_vector(st.builder,
                           calculate_direction_vector(current_detection_coordinate,
                                                      next_detection_coordinate)),
                       next_detection_coordinate.x, next_detection_coordinate.y),
                   next_detection)
          ELSE st

RECURSIVE SmallestSegmentsLoop(_, _, _, _, _)
SmallestSegmentsLoop(st, track, line_section_as_geometry, offset, i) ==
    IF i > Len(track.detections) - 1 \/ st.error # "none" THEN st
    ELSE SmallestSegmentsLoop(
             SmallestSegmentsStep(st, track, line_section_as_geometry, offset, i),
             track, line_section_as_geometry, offset, i + 1)

\* fault seeded for C2: the fast rejection tests the track without its last
\* detection
track_line_intersects_section_DropsLast(track, line_section, offset) ==
    line_intersects_line(line_section,
        SubSeq(track_coordinates(track, offset), 1, Len(track.detections) - 1))

\* SimpleIntersectBySmallestTrackSegments._track_line_intersects_section
track_line_intersects_section(track, line_section, offset) ==
    line_intersects_line(line_section, track_coordinates(track, offset))

\* SimpleIntersectBySmallestTrackSegments.intersect
SimpleIntersectBySmallestTrackSegments(line_section, track, event_builder) ==
    LET line_section_as_geometry == get_coordinates(line_section)
        builder == add_road_user_type(event_builder, track.classification)
        offset == get_offset(line_section, SECTION_ENTER)
    IN  IF ~track_line_intersects_section(track, line_section_as_geometry, offset)
          THEN Returned(<<>>, builder)
          ELSE SmallestSegmentsLoop(Returned(<<>>, builder), track,
                                    line_section_as_geometry, offset, 1)

\* fault seeded for C4: the synthetic event is created from the second detection
AreaFirstEvent_StampsSecond(st, track, coordinates) ==
    LET b1 == add_event_type(st.builder, SECTION_ENTER)
        b2 == add_road_user_type(b1, track.detections[1].classification)
        b3 == add_direction_vector(b2,
                  calculate_direction_vector(coordinates[1], coordinates[2]))
        b4 == add_event_coordinate(b3, coordinates[1].x, coordinates[1].y)
    IN  AppendEvent(st, b4, track.detections[2])

\* the synthetic SECTION_ENTER of a track that starts inside the area
AreaFirstEvent(st, track, coordinates) ==
    LET first_detection == track.detections[1]
        b1 == add_event_type(st.builder, SECTION_ENTER)
        b2 == add_road_user_type(b1, first_detection.classification)
        b3 == add_direction_vector(b2,
                  calculate_direction_vector(coordinates[1], coordinates[2]))
        b4 == add_event_coordinate(b3, coordinates[1].x, coordinates[1].y)
    IN  AppendEvent(st, b4, first_detection)

\* fault seeded for C3: section_currently_entered is not updated after an event
AreaStep_KeepsState(st, track, coordinates, section_entered_mask, current_index) ==
    LET entered == section_entered_mask[current_index]
        b1 == add_direction_vector(st.builder,
                  calculate_direction_vector(coordinates[current_index - 1],
                                             coordinates[current_index]))
        b2 == add_event_coordinate(b1, coordinates[current_index].x,
                                   coordinates[current_index].y)
        b3 == add_event_type(b2, IF entered THEN SECTION_ENTER ELSE SECTION_LEAVE)
        r == AppendEvent(st, b3, track.detections[current_index])
    IN  IF st.entered = entered THEN st
        ELSE [events |-> r.events, error |-> r.error, builder |-> r.builder,
              entered |-> st.entered]

\* fault seeded for C20: an event is created at every index inside the area
AreaStep_EmitsWhileInside(st, track, coordinates, section_entered_mask, current_index) ==
    LET entered == section_entered_mask[current_index]
        b1 == add_direction_vector(st.builder,
                  calculate_direction_vector(coordinates[current_index - 1],
                                             coordinates[current_index]))
        b2 == add_event_coordinate(b1, coordinates[current_index].x,
                                   coordinates[current_index].y)
        b3 == add_event_type(b2, IF entered THEN SECTION_ENTER ELSE SECTION_LEAVE)
        r == AppendEvent(st, b3, track.detections[current_index])
    IN  IF st.entered = entered /\ ~entered THEN st
        ELSE [events |-> r.events, error |-> r.error, builder |-> r.builder,
              entered |-> entered]

\* one iteration of the loop of SimpleIntersectAreaByTrackPoints.intersect at
\* current_index; st.entered is section_currently_entered
AreaStep(st, track, coordinates, section_entered_mask, current_index) ==
    LET entered == section_entered_mask[current_index]
        b1 == add_direction_vector(st.builder,
                  calculate_direction_vector(coordinates[current_index - 1],
                                             coordinates[current_index]))
        b2 == add_event_coordinate(b1, coordinates[current_index].x,
                                   coordinates[current_index].y)
        b3 == add_event_type(b2, IF entered THEN SECTION_ENTER ELSE SECTION_LEAVE)
        r == AppendEvent(st, b3, track.detections[current_index])
    IN  IF st.entered = entered THEN st
        ELSE [events |-> r.events, error |-> r.error, builder |-> r.builder,
              entered |-> entered]

RECURSIVE AreaLoop(_, _, _, _, _)
AreaLoop(st, track, coordinates, section_entered_mask, current_index) ==
    IF current_index > Len(track.detections) \/ st.error # "none" THEN st
    ELSE AreaLoop(AreaStep(st, track, coordinates, section_entered_mask, current_index),
                  track, coordinates, section_entered_mask, current_index + 1)

\* SimpleIntersectAreaByTrackPoints.intersect
SimpleIntersectAreaByTrackPoints(area, track, event_builder) ==
    LET area_as_polygon == area.coordinates
        offset == get_offset(area, SECTION_ENTER)
        coordinates == track_coordinates(track, offset)
        section_entered_mask ==
            are_coordinates_within_polygon(coordinates, area_as_polygon)
        builder == add_road_user_type(event_builder, track.classification)
        track_starts_inside_area == section_entered_mask[1]
        first == IF track_starts_inside_area
                   THEN AreaFirstEvent(Returned(<<>>, builder), track, coordinates)
                   ELSE Returned(<<>>, builder)
        last == AreaLoop([events |-> first.events, error |-> first.error,
                          builder |-> first.builder,
                          entered |-> track_starts_inside_area],
                         track, coordinates, section_entered_mask, 2)
    IN  [events |-> last.events, error |-> last.error, builder |-> last.builder]

\* fault seeded for C22: the event is created from the detection before
SplittingEvent_StampsPrevious(st, track, track_as_geometry, detection_index) ==
    IF detection_index + 1 > Len(track.detections)
      THEN Raised("IndexError", st.builder)
    ELSE AppendEvent(st,
             add_event_coordinate(
                 add_direction_vector(st.builder,
                     calculate_direction_vector(track_as_geometry[detection_index],
                                                track_as_geometry[detection_index + 1])),
                 track_as_geometry[detection_index + 1].x,
                 track_as_geometry[detection_index + 1].y),
             track.detections[detection_index])

\* the event of the n-th split, created from detections[detection_index]
\* (detection_index counts from 0 as in the code)
SplittingEvent(st, track, track_as_geometry, detection_index) ==
    IF detection_index + 1 > Len(track.detections)
      THEN Raised("IndexError", st.builder)
    ELSE AppendEvent(st,
             add_event_coordinate(
                 add_direction_vector(st.builder,
                     calculate_direction_vector(track_as_geometry[detection_index],
                                                track_as_geometry[detection_index + 1])),
                 track_as_geometry[detection_index + 1].x,
                 track_as_geometry[detection_index + 1].y),
             track.detections[detection_index + 1])

\* the loop of SimpleIntersectBySplittingTrackLine.intersect over
\* splitted_lines[1:], from the n-th on
RECURSIVE SplittingLoop(_, _, _, _, _, _)
SplittingLoop(st, track, track_as_geometry, splitted_lines, n, current_idx) ==
    IF n > Len(splitted_lines) - 1 \/ st.error # "none" THEN st
    ELSE SplittingLoop(
             SplittingEvent(st, track, track_as_geometry, current_idx - 2 * n + 1),
             track, track_as_geometry, splitted_lines, n + 1,
             current_idx + Len(splitted_lines[n + 1]))

\* the events of the sub-lines, none if the line was not split
SplittingEvents(st, track, track_as_geometry, splitted_lines) ==
    IF splitted_lines = <<>> THEN st
    ELSE SplittingLoop(st, track, track_as_geometry, splitted_lines, 1,
                       Len(splitted_lines[1]))

\* the body of SimpleIntersectBySplittingTrackLine.intersect once the track
\* is a line
SplittingIntersect(line_section, track, event_builder, track_as_geometry) ==
    SplittingEvents(Returned(<<>>, add_road_user_type(event_builder, track.classification)),
                    track, track_as_geometry,
                    split_line_with_line(track_as_geometry, get_coordinates(line_section)))

\* SimpleIntersectBySplittingTrackLine.intersect
SimpleIntersectBySplittingTrackLine(line_section, track, event_builder) ==
    IF event_builder.event_type = None THEN Raised("ValueError", event_builder)
    ELSE SplittingIntersect(line_section, track, event_builder,
             track_coordinates(track,
                 get_offset(line_section, event_builder.event_type)))

----------------------------------------------------------------------------
(* Event detection: SectionActionDetector, SceneActionDetector and          *)
(* _run_intersect_on_single_track                                           *)

\* Intersector.intersect of the intersector a detector was built with
Intersect(intersector, track, event_builder) ==
    IF intersector.strategy = "SmallestTrackSegments"
      THEN SimpleIntersectBySmallestTrackSegments(intersector.section, track,
                                                  event_builder)
    ELSE IF intersector.strategy = "SplittingTrackLine"
      THEN SimpleIntersectBySplittingTrackLine(intersector.section, track,
                                               event_builder)
    ELSE SimpleIntersectAreaByTrackPoints(intersector.section, track,
                                          event_builder)

\* SectionActionDetector._detect: seeds the builder with the section id and
\* the enter type, then intersects
SectionActionDetector_detect(detector, section, track) ==
    Intersect(detector.intersector, track,
              add_event_type(
                  add_section_id(detector.section_event_builder, section.id),
                  SECTION_ENTER))

\* the detector the body of the loop of _run_intersect_on_single_track leaves
\* in section_action_detector for _section (NoneRecord: the name is still unbound)
SelectDetector(previous, section) ==
    IF section.kind = "area"
      THEN [intersector |-> [section |-> section, strategy |-> "AreaByTrackPoints"],
            section_event_builder |-> SectionEventBuilder]
    ELSE IF section.kind = "line"
      THEN [intersector |-> [section |-> section, strategy |-> "SmallestTrackSegments"],
            section_event_builder |-> SectionEventBuilder]
    ELSE previous

\* fault seeded for C10: the events of a section are put in front of the list
extend_Prepends(list, new) == new \o list

\* list.extend of the events of one section
extend(list, new) == list \o new

\* the loop of _run_intersect_on_single_track from section k on; st carries
\* the events so far and the detector of the previous iteration
RECURSIVE RunIntersectLoop(_, _, _, _)
RunIntersectLoop(st, track, sections, k) ==
    IF k > Len(sections) \/ st.error # "none" THEN st
    ELSE LET detector == SelectDetector(st.detector, sections[k])
             r == SectionActionDetector_detect(detector, sections[k], track)
         IN  IF detector = NoneRecord
               THEN [st EXCEPT !.error = "UnboundLocalError"]
             ELSE IF r.error # "none"
               THEN [events |-> <<>>, error |-> r.error, builder |-> r.builder,
                     detector |-> detector]
             ELSE RunIntersectLoop(
                      [events |-> extend(st.events, r.events), error |-> "none",
                       builder |-> r.builder, detector |-> detector],
                      track, sections, k + 1)

\* _run_intersect_on_single_track
run_intersect_on_single_track(track, sections) ==
    LET r == RunIntersectLoop([events |-> <<>>, error |-> "none",
                               builder |-> SectionEventBuilder, detector |-> NoneRecord],
                              track, sections, 1)
    IN  [events |-> r.events, error |-> r.error, builder |-> r.builder]

\* SceneActionDetector.detect_enter_scene
detect_enter_scene(track, scene_event_builder) ==
    LET first_detection == track.detections[1]
        next_detection == track.detections[2]
        b1 == add_event_type(scene_event_builder, ENTER_SCENE)
        b2 == add_road_user_type(b1, track.classification)
        b3 == add_direction_vector(b2,
                  calculate_direction_vector(first_detection, next_detection))
        b4 == add_event_coordinate(b3, first_detection.x, first_detection.y)
    IN  AppendEvent(Returned(<<>>, b4), b4, first_detection)

\* fault seeded for C8: the leave event is created from the second last detection
detect_leave_scene_StampsSecondLast(track, scene_event_builder) ==
    LET n == Len(track.detections)
        last_detection == track.detections[n]
        second_last_detection == track.detections[n - 1]
        b1 == add_event_type(scene_event_builder, LEAVE_SCENE)
        b2 == add_road_user_type(b1, track.classification)
        b3 == add_direction_vector(b2,
                  calculate_direction_vector(second_last_detection, last_detection))
        b4 == add_event_coordinate(b3, last_detection.x, last_detection.y)
    IN  AppendEvent(Returned(<<>>, b4), b4, second_last_detection)

\* SceneActionDetector.detect_leave_scene
detect_leave_scene(track, scene_event_builder) ==
    LET n == Len(track.detections)
        last_detection == track.detections[n]
        second_last_detection == track.detections[n - 1]
        b1 == add_event_type(scene_event_builder, LEAVE_SCENE)
        b2 == add_road_user_type(b1, track.classification)
        b3 == add_direction_vector(b2,
                  calculate_direction_vector(second_last_detection, last_detection))
        b4 == add_event_coordinate(b3, last_detection.x, last_detection.y)
    IN  AppendEvent(Returned(<<>>, b4), b4, last_detection)

\* SceneActionDetector.detect for one track: the enter event, then the leave event
SceneActionDetector_detect(track, scene_event_builder) ==
    LET enter == detect_enter_scene(track, scene_event_builder)
        leave == detect_leave_scene(track, enter.builder)
    IN  IF enter.error # "none" THEN enter
        ELSE IF leave.error # "none" THEN leave
        ELSE Returned(enter.events \o leave.events, leave.builder)

----------------------------------------------------------------------------
(* Track cutting engine: SimpleCutTrackSegmentBuilder and                   *)
(* SimpleCutTracksWithSection                                               *)

\* SimpleCutTrackSegmentBuilder.__init__ / reset
EmptyTrackBuilder == [track_id |-> NoTrackId, detections |-> <<>>]

\* SimpleCutTrackSegmentBuilder.add_id
add_id(builder, track_id) == [builder EXCEPT !.track_id = track_id]

\* SimpleCutTrackSegmentBuilder.add_detection
add_detection(builder, detection) ==
    [builder EXCEPT !.detections = Append(@, detection)]

\* SimpleCutTrackSegmentBuilder._build_detections: every detection is
\* reconstructed with the builder's track id
build_detections(builder) ==
    [i \in 1..Len(builder.detections) |->
        [builder.detections[i] EXCEPT !.track_id = builder.track_id]]

\* fault seeded for C24: a successful build forgets the id only
build_KeepsDetections(builder) ==
    LET detections == build_detections(builder)
    IN  IF builder.track_id = NoTrackId
          THEN [error |-> "TrackBuilderError", builder |-> builder, track |-> NoneRecord]
        ELSE IF Len(detections) = 0
          THEN [error |-> "ValueError", builder |-> builder, track |-> NoneRecord]
        ELSE IF Track_validate(builder.track_id, detections) # "none"
          THEN [error |-> Track_validate(builder.track_id, detections),
                builder |-> builder, track |-> NoneRecord]
        ELSE [error |-> "none",
              builder |-> [builder EXCEPT !.track_id = NoTrackId],
              track |-> Track(builder.track_id,
                              CalculateTrackClassificationByMaxConfidence(detections),
                              detections)]

\* SimpleCutTrackSegmentBuilder.build: the track and the reset builder, or
\* the exception and the builder as it was
build(builder) ==
    LET detections == build_detections(builder)
    IN  IF builder.track_id = NoTrackId
          THEN [error |-> "TrackBuilderError", builder |-> builder, track |-> NoneRecord]
        ELSE IF Len(detections) = 0
          THEN [error |-> "ValueError", builder |-> builder, track |-> NoneRecord]
        ELSE IF Track_validate(builder.track_id, detections) # "none"
          THEN [error |-> Track_validate(builder.track_id, detections),
                builder |-> builder, track |-> NoneRecord]
        ELSE [error |-> "none",
              builder |-> EmptyTrackBuilder,
              track |-> Track(builder.track_id,
                              CalculateTrackClassificationByMaxConfidence(detections),
                              detections)]

\* SimpleCutTracksWithSection._build_track
build_track(builder, track_id, detection) ==
    build(add_detection(add_id(builder, track_id), detection))

\* ShapelyMapper.map_detections_to_line_string
map_detections_to_line_string(detections) ==
    [i \in 1..Len(detections) |-> Coordinate(detections[i].x, detections[i].y)]

\* fault seeded for C23: the sub-tracks are counted from zero
SegmentId_CountsFromZero(track, cut_track_segments) ==
    Append(track.id, Len(cut_track_segments))

\* the id of the next sub-track: "<track id>_<n>"
SegmentId(track, cut_track_segments) == Append(track.id, Len(cut_track_segments) + 1)

\* fault seeded for C5: the sub-track is closed with the later detection of
\* the crossing pair
CutStep_ClosesWithNext(st, track, section_geometry, i) ==
    LET current_detection == track.detections[i]
        next_detection == track.detections[i + 1]
        track_segment_geometry ==
            map_detections_to_line_string(<<current_detection, next_detection>>)
        built == build_track(st.builder, SegmentId(track, st.segments),
                             next_detection)
    IN  IF line_intersects_line(track_segment_geometry, section_geometry)
          THEN IF built.error # "none"
                 THEN [error |-> built.error, builder |-> built.builder,
                       segments |-> <<>>]
                 ELSE [error |-> "none",
                       builder |-> built.builder, segments |-> Append(st.segments, built.track)]
          ELSE [st EXCEPT !.builder = add_detection(st.builder, current_detection)]

\* one iteration of the loop of _cut_track_with_section over the pair
\* (detections[i], detections[i + 1]); st carries cut_track_segments and
\* the track builder
CutStep(st, track, section_geometry, i) ==
    LET current_detection == track.detections[i]
        next_detection == track.detections[i + 1]
        track_segment_geometry ==
            map_detections_to_line_string(<<current_detection, next_detection>>)
        built == build_track(st.builder, SegmentId(track, st.segments),
                             current_detection)
    IN  IF line_intersects_line(track_segment_geometry, section_geometry)
          THEN IF built.error # "none"
                 THEN [error |-> built.error, builder |-> built.builder,
                       segments |-> <<>>]
                 ELSE [error |-> "none",
                       builder |-> built.builder, segments |-> Append(st.segments, built.track)]
          ELSE [st EXCEPT !.builder = add_detection(st.builder, current_detection)]

RECURSIVE CutLoop(_, _, _, _)
CutLoop(st, track, section_geometry, i) ==
    IF i > Len(track.detections) - 1 \/ st.error # "none" THEN st
    ELSE CutLoop(CutStep(st, track, section_geometry, i), track, section_geometry,
                 i + 1)

\* SimpleCutTracksWithSection._cut_track_with_section
cut_track_with_section(builder, track, cutting_section) ==
    LET section_geometry == get_coordinates(cutting_section)
        looped == CutLoop([error |-> "none", builder |-> builder, segments |-> <<>>],
                          track, section_geometry, 1)
        built == build_track(looped.builder, SegmentId(track, looped.segments),
                             track.detections[Len(track.detections)])
    IN  IF looped.error # "none" THEN looped
        ELSE IF built.error # "none"
          THEN [error |-> built.error, builder |-> built.builder, segments |-> <<>>]
        ELSE [error |-> "none",
              builder |-> built.builder, segments |-> Append(looped.segments, built.track)]

\* SimpleCutTracksWithSection.__call__ from the k-th of the tracks on; st
\* carries cut_tracks and the track builder
RECURSIVE CutTracksLoop(_, _, _, _)
CutTracksLoop(st, selected, cutting_section, k) ==
    IF k > Len(selected) \/ st.error # "none" THEN st
    ELSE LET r == cut_track_with_section(st.builder, selected[k], cutting_section)
         IN  CutTracksLoop(
                 IF r.error # "none" THEN r
                 ELSE [error |-> "none",
                       builder |-> r.builder, segments |-> st.segments \o r.segments],
                 selected, cutting_section, k + 1)

\* SimpleCutTracksWithSection.__call__
SimpleCutTracksWithSection(builder, selected, cutting_section) ==
    CutTracksLoop([error |-> "none", builder |-> builder, segments |-> <<>>],
                  selected, cutting_section, 1)

----------------------------------------------------------------------------
(* Inputs: tracks and sections the engine is run on *)

Xs == 0..MaxX
Ys == 0..1

VideoName == <<"myhostname", "something.otdet">>

\* occurrence of the detection of a frame at a clock resolution of 1 or 2 frames
OccurrenceOf(frame, resolution) == (frame + resolution - 1) \div resolution

\* a track as the parser builds it: detections in frame order, the
\* classification computed by the calculator
BuildTrack(id, n, xs, ys, classes, confidences, resolution) ==
    LET detections ==
            [i \in 1..n |->
                Detection(classes[i], confidences[i], xs[i], ys[i], 1, 1, i,
                          OccurrenceOf(i, resolution), id, VideoName)]
    IN  Track(id, CalculateTrackClassificationByMaxConfidence(detections), detections)

\* a track of the intersection specifications: a path over the grid, the
\* first detection classified as given, the others car; the clock resolves
\* one frame for a car and two frames for a truck
IntersectTrack(n, xs, ys, c) ==
    BuildTrack(<<1>>, n, xs, ys, [i \in 1..n |-> IF i = 1 THEN c ELSE "car"],
               [i \in 1..n |-> 5], IF c = "car" THEN 1 ELSE 2)

Offsets(x, y) == [e \in {SECTION_ENTER} |-> Coordinate(x, y)]

\* a vertical line through the grid column x = 1
LineMiddle == LineSection("L1", Offsets(0, 0), EmptyDict, Coordinate(1, 0), Coordinate(1, 1))
\* a slanted line between the columns x = 1 and x = 2, through no grid point
LineSlanted == LineSection("L2", Offsets(0, 0), EmptyDict, Coordinate(2, -1), Coordinate(1, 2))
\* a line sampled at the far corner of the bounding box
LineCorner == LineSection("L3", Offsets(1, 1), EmptyDict, Coordinate(2, 2), Coordinate(2, 3))
\* a rectangle around the column x = 2
AreaRight ==
    Area("A1", Offsets(0, 0), EmptyDict,
         <<Coordinate(1, -1), Coordinate(1, 2), Coordinate(3, 2), Coordinate(3, -1),
           Coordinate(1, -1)>>)
\* a triangle around the origin; (1, 1) and (2, 0) lie on its boundary
AreaCorner ==
    Area("A2", Offsets(0, 0), EmptyDict,
         <<Coordinate(-1, -1), Coordinate(3, -1), Coordinate(-1, 3),
           Coordinate(-1, -1)>>)

LineSections == {LineMiddle, LineSlanted, LineCorner}
Areas == {AreaRight, AreaCorner}
Sections == LineSections \cup Areas

\* the section lists a single-track run is called with
SectionLists == UNION { [1..n -> {LineMiddle, LineCorner, AreaRight}] : n \in 0..2 }

\* a track of the cutting specification: a path along the row y = 0, the
\* detection at the given position a truck of confidence 0.8, the others cars
\* of confidence 0.5 (position 0: cars only)
CutTrackInput(n, xs, truck) ==
    BuildTrack(<<1>>, n, xs, [i \in 1..n |-> 0],
               [i \in 1..n |-> IF i = truck THEN "truck" ELSE "car"],
               [i \in 1..n |-> IF i = truck THEN 8 ELSE 5], 1)

\* a cutting line through the grid column x = 1
CutMiddle == LineSection("#cut_1", Offsets(0, 0), EmptyDict, Coordinate(1, -1), Coordinate(1, 1))
\* a cutting line between the columns x = 1 and x = 2
CutSlanted == LineSection("#cut_2", Offsets(0, 0), EmptyDict, Coordinate(2, -1), Coordinate(1, 1))

CuttingSections == {CutMiddle, CutSlanted}

\* tracks of the parallel pass: the k-th has the id k and goes to the column
\* x = 2 and back, or starts there
ParallelTrack(k, xs) ==
    BuildTrack(<<k>>, 3, xs, [i \in 1..3 |-> 0], [i \in 1..3 |-> "car"],
               [i \in 1..3 |-> 5], 1)
\* n tracks, their paths alternating
ParallelTracks(n, first) ==
    [k \in 1..n |-> ParallelTrack(k, IF k % 2 = first THEN <<0, 2, 0>> ELSE <<2, 2, 0>>)]
ParallelSectionLists == {<<LineMiddle>>, <<LineMiddle, AreaRight>>}

----------------------------------------------------------------------------
(* Track repositories *)

\* the dict objects that exist before any TrackRepository is constructed: the
\* one the default value of the parameter tracks of __init__ was evaluated
\* to when the function was defined
NoTrackRepositories == [dicts |-> <<<<>>>>, instances |-> <<>>]

\* TrackRepository.__init__ without an argument: self.tracks is the default
\* value of the parameter, the same dict object for every call
TrackRepository_init(repositories) ==
    [dicts |-> repositories.dicts,
     instances |-> Append(repositories.instances, 1)]

\* TrackRepository.__init__ with a dict of the caller's
TrackRepository_init_with(repositories, given) ==
    [dicts |-> Append(repositories.dicts, given),
     instances |-> Append(repositories.instances, Len(repositories.dicts) + 1)]

\* TrackRepository.__add: self.tracks[track.id] = track
TrackRepository_add(content, track) ==
    IF \E i \in 1..Len(content) : content[i].id = track.id
      THEN [i \in 1..Len(content) |->
               IF content[i].id = track.id THEN track ELSE content[i]]
      ELSE Append(content, track)

\* the loop of TrackRepository.add_all
RECURSIVE TrackRepository_add_loop(_, _, _)
TrackRepository_add_loop(content, new_tracks, k) ==
    IF k > Len(new_tracks) THEN content
    ELSE TrackRepository_add_loop(TrackRepository_add(content, new_tracks[k]),
                                  new_tracks, k + 1)

\* TrackRepository.add_all on the instance r
TrackRepository_add_all(repositories, r, new_tracks) ==
    [repositories EXCEPT
        !.dicts[repositories.instances[r]] =
            TrackRepository_add_loop(@, new_tracks, 1)]

\* TrackRepository.get_all of the instance r
get_all(repositories, r) == repositories.dicts[repositories.instances[r]]

----------------------------------------------------------------------------
(* Specification of the intersection pass over one track *)

\* the subjects an observer can be registered with: TrackRepository.observers,
\* SectionRepository._repository_content_observers,
\* SectionRepository._section_content_observers and the subject of the
\* tracks-cut use case
Subjects == {"tracks", "sections", "section_changed", "tracks_cut"}

\* ClearAllEvents is registered with no subject
NoObservers == [subject \in Subjects |-> 0]

InitCommon ==
    /\ op = "idle"
    /\ arg = <<>>
    /\ events = <<>>
    /\ error = "none"
    /\ eventBuilder = NoneRecord
    /\ trackBuilder = EmptyTrackBuilder
    /\ cutTracks = <<>>
    /\ calls = 0
    /\ tasks = <<>>
    /\ taken = <<>>
    /\ finished = <<>>
    /\ results = <<>>
    /\ eventRepository = [events |-> <<>>, notifications |-> <<>>]
    /\ sectionRepository = <<>>
    /\ observers = NoObservers
    /\ stale = FALSE
    /\ trackRepositories = NoTrackRepositories

Init ==
    /\ \E n \in 2..MaxDetections :
          \E xs \in [1..n -> Xs], ys \in [1..n -> Ys], c \in {"car", "truck"} :
              tracks = <<IntersectTrack(n, xs, ys, c)>>
    /\ InitCommon

\* the last operation handed back r
Finish(name, sections, r) ==
    /\ op' = name
    /\ arg' = sections
    /\ events' = r.events
    /\ error' = r.error
    /\ eventBuilder' = r.builder
    /\ UNCHANGED <<tracks, trackBuilder, cutTracks, calls, tasks, taken, finished, results,
                   eventRepository, sectionRepository, observers, stale, trackRepositories>>

\* a SectionActionDetector over the smallest-segments intersector of a line section
DetectLine(section) ==
    /\ op = "idle"
    /\ Finish("intersect_line", <<section>>,
              SectionActionDetector_detect(SelectDetector(NoneRecord, section), section,
                                           tracks[1]))

\* a SectionActionDetector over the track-points intersector of an area
DetectArea(section) ==
    /\ op = "idle"
    /\ Finish("intersect_area", <<section>>,
              SectionActionDetector_detect(SelectDetector(NoneRecord, section), section,
                                           tracks[1]))

\* _run_intersect_on_single_track over a list of sections
RunIntersectOnSingleTrack(sections) ==
    /\ op = "idle"
    /\ Finish("run_intersect", sections,
              run_intersect_on_single_track(tracks[1], sections))

\* the scene detector on the track
DetectScene ==
    /\ op = "idle"
    /\ Finish("detect_scene", <<>>,
              SceneActionDetector_detect(tracks[1], SceneEventBuilder))

Next ==
    \/ \E section \in LineSections : DetectLine(section)
    \/ \E section \in Areas : DetectArea(section)
    \/ \E sections \in SectionLists : RunIntersectOnSingleTrack(sections)
    \/ DetectScene

Spec == Init /\ [][Next]_vars

----------------------------------------------------------------------------
(* Specification of the cutting engine: one cutter instance, its track      *)
(* builder kept from call to call                                           *)

InitCut ==
    /\ \E n \in 2..MaxCutDetections :
          \E xs \in [1..n -> Xs], truck \in 0..n :
              tracks = <<CutTrackInput(n, xs, truck)>>
    /\ InitCommon

\* GetTracksFromIds: the tracks of the repository with the given positions
GetTracksFromIds(ids) ==
    LET Wanted(t) == \E i \in ids : tracks[i] = t
    IN  SelectSeq(tracks, Wanted)

\* SimpleCutTracksWithSection.__call__ on the cutter instance
CutTracks(ids, cutting_section) ==
    /\ calls < MaxCutCalls
    /\ LET r == SimpleCutTracksWithSection(trackBuilder, GetTracksFromIds(ids),
                                           cutting_section)
       IN  /\ op' = "cut"
           /\ arg' = <<cutting_section>>
           /\ error' = r.error
           /\ cutTracks' = r.segments
           /\ trackBuilder' = r.builder
           /\ calls' = calls + 1
    /\ UNCHANGED <<tracks, events, eventBuilder, tasks, taken, finished, results,
                   eventRepository, sectionRepository, observers, stale, trackRepositories>>

NextCut ==
    \E ids \in (SUBSET (1..Len(tracks))) \ {{}} :
        \E cutting_section \in CuttingSections : CutTracks(ids, cutting_section)

SpecCut == InitCut /\ [][NextCut]_vars

----------------------------------------------------------------------------
(* Properties of the cutting engine *)

\* the detections of a sub-track with the track id of the original restored
Restored(detections, track) ==
    [i \in 1..Len(detections) |-> [detections[i] EXCEPT !.track_id = track.id]]

\* the consecutive detection pairs whose segment shares a point with the
\* cutting line
CutPairs(track, cutting_section) ==
    { i \in 1..(Len(track.detections) - 1) :
        SegmentsIntersect(Coordinate(track.detections[i].x, track.detections[i].y),
                          Coordinate(track.detections[i + 1].x,
                                     track.detections[i + 1].y),
                          cutting_section.start, cutting_section.end) }

\* C5 as stated: a track crossed exactly once is cut into exactly two
\* sub-tracks that are contiguous, disjoint and together hold every original
\* detection exactly once
C5_TwoSubTracksPartition ==
    (op = "cut" /\ Cardinality(CutPairs(tracks[1], arg[1])) = 1)
        => /\ error = "none"
           /\ Len(cutTracks) = 2
           /\ Restored(cutTracks[1].detections, tracks[1])
                \o Restored(cutTracks[2].detections, tracks[1])
              = tracks[1].detections

\* what a cutting call that starts with the track builder holding `held` and
\* cuts a track crossed on its k-th segment only hands back
CutOnceOutcome(held, track, k, outcome, segments) ==
    LET n == Len(track.detections)
        first == Restored(held.detections, track) \o SubSeq(track.detections, 1, k)
        second == SubSeq(track.detections, k + 1, n)
    IN  /\ outcome = "none"
           <=> (Len(first) >= 2 /\ SortedByOccurrence(first) /\ Len(second) >= 2)
        /\ (outcome # "none" /\ SortedByOccurrence(first))
              => outcome = "BuildTrackWithSingleDetectionError"
        /\ outcome = "none"
              => /\ Len(segments) = 2
                 /\ segments[1].id = <<track.id[1], 1>>
                 /\ segments[2].id = <<track.id[1], 2>>
                 /\ Restored(segments[1].detections, track) = first
                 /\ Restored(segments[2].detections, track) = second
                 /\ \A j \in 1..2 : \A i \in 1..Len(segments[j].detections) :
                       segments[j].detections[i].track_id = segments[j].id

\* C5 amended: cutting a track crossed on its k-th segment only (n
\* detections) either raises or returns exactly two sub-tracks. The second
\* holds exactly the detections k+1..n, the first holds the detections the
\* track builder held when the call began followed by the detections 1..k.
\* The call raises BuildTrackWithSingleDetectionError when one of the two
\* would hold fewer than two detections: with a track builder that holds
\* nothing, when the crossing is on the first or the last segment. Then, and
\* only then, the two sub-tracks are disjoint, contiguous and cover every
\* original detection exactly once.
C5_TwoSubTracksOrError ==
    [][ (op' = "cut" /\ calls' = calls + 1)
            => \A k \in 1..(Len(tracks[1].detections) - 1) :
                 CutPairs(tracks[1], arg'[1]) = {k}
                    => CutOnceOutcome(trackBuilder, tracks[1], k, error', cutTracks')
      ]_vars

\* a track of four detections cut on its middle segment by the first call on
\* the cutter
C5_Witness ==
    /\ op = "cut"
    /\ calls = 1
    /\ Len(tracks[1].detections) = 4
    /\ CutPairs(tracks[1], arg[1]) = {2}
    /\ error = "none"
    /\ Len(cutTracks) = 2
    /\ Len(cutTracks[1].detections) = 2
    /\ Len(cutTracks[2].detections) = 2

\* summed confidence of the detections carrying the label
RECURSIVE ConfidenceSum(_, _)
ConfidenceSum(detections, label) ==
    IF detections = <<>> THEN 0
    ELSE (IF Head(detections).classification = label
            THEN Head(detections).confidence ELSE 0)
         + ConfidenceSum(Tail(detections), label)

\* no label of the detections has a larger summed confidence
HasMaxConfidenceSum(label, detections) ==
    /\ \E i \in 1..Len(detections) : detections[i].classification = label
    /\ \A i \in 1..Len(detections) :
          ConfidenceSum(detections, detections[i].classification)
              <= ConfidenceSum(detections, label)

\* C6: the classification of every sub-track a cutting call returns has the
\* maximal confidence sum over the detections of that sub-track
C6_SubTrackClassification ==
    (op = "cut" /\ error = "none")
        => \A j \in 1..Len(cutTracks) :
             HasMaxConfidenceSum(cutTracks[j].classification, cutTracks[j].detections)

\* two sub-tracks classified differently, one of them not as the original
\* track was, its label not having the maximal sum over the original detections
C6_Witness ==
    /\ op = "cut"
    /\ error = "none"
    /\ Len(cutTracks) = 2
    /\ cutTracks[1].classification # cutTracks[2].classification
    /\ \E j \in 1..2 :
          /\ cutTracks[j].classification # tracks[1].classification
          /\ ~HasMaxConfidenceSum(cutTracks[j].classification, tracks[1].detections)

----------------------------------------------------------------------------
(* Specification of the parallel intersection pass: SimpleRunIntersect over *)
(* a pool of worker processes                                               *)

InitParallel ==
    /\ \E n \in 1..MaxTracks : \E first \in {0, 1} : tracks = ParallelTracks(n, first)
    /\ InitCommon

Range(seq) == { seq[i] : i \in 1..Len(seq) }

\* fault seeded for C7: the first track is not handed to execute
SimpleRunIntersect_call_SkipsFirst(get_tracks, sections) ==
    [tracks |-> Tail(get_tracks), sections |-> sections,
     intersect |-> "_run_intersect_on_single_track"]

\* SimpleRunIntersect.__call__: the arguments execute is called with
SimpleRunIntersect_call(get_tracks, sections) ==
    [tracks |-> get_tracks, sections |-> sections,
     intersect |-> "_run_intersect_on_single_track"]

\* the argument list of starmap: one (track, sections) item per track
starmap_arguments(call) ==
    [k \in 1..Len(call.tracks) |-> [track |-> call.tracks[k], sections |-> call.sections]]

\* _flatten_events: the lists of the tasks chained in task order
RECURSIVE flatten_events(_)
flatten_events(lists) ==
    IF lists = <<>> THEN <<>> ELSE Head(lists) \o flatten_events(Tail(lists))

\* SimpleRunIntersect.__call__ and execute up to the call of starmap
Execute(sections) ==
    /\ op = "idle"
    /\ LET items == starmap_arguments(SimpleRunIntersect_call(tracks, sections))
       IN  /\ tasks' = items
           /\ taken' = [k \in 1..Len(items) |-> 0]
           /\ results' = [k \in 1..Len(items) |-> <<>>]
    /\ finished' = <<>>
    /\ op' = "starmap"
    /\ arg' = sections
    /\ UNCHANGED <<tracks, events, error, eventBuilder, trackBuilder, cutTracks, calls,
                   eventRepository, sectionRepository, observers, stale, trackRepositories>>

\* a free worker process takes a task no worker has taken
Take(w, k) ==
    /\ op = "starmap"
    /\ taken[k] = 0
    /\ \A j \in 1..Len(tasks) : taken[j] = w => j \in Range(finished)
    /\ taken' = [taken EXCEPT ![k] = w]
    /\ UNCHANGED <<tracks, op, arg, events, error, eventBuilder, trackBuilder,
                   cutTracks, calls, tasks, finished, results, eventRepository,
                   sectionRepository, observers, stale, trackRepositories>>

\* the worker process returns from the intersect function; an exception
\* ends the pass
Complete(w, k) ==
    /\ op = "starmap"
    /\ taken[k] = w
    /\ k \notin Range(finished)
    /\ LET r == run_intersect_on_single_track(tasks[k].track, tasks[k].sections)
       IN  IF r.error # "none"
             THEN /\ op' = "execute"
                  /\ error' = r.error
                  /\ UNCHANGED results
             ELSE /\ results' = [results EXCEPT ![k] = r.events]
                  /\ UNCHANGED <<op, error>>
    /\ finished' = Append(finished, k)
    /\ UNCHANGED <<tracks, arg, events, eventBuilder, trackBuilder, cutTracks, calls,
                   tasks, taken, eventRepository, sectionRepository, observers, stale,
                   trackRepositories>>

\* starmap returns once every task is done; execute returns the flat list
Join ==
    /\ op = "starmap"
    /\ Len(finished) = Len(tasks)
    /\ events' = flatten_events(results)
    /\ op' = "execute"
    /\ UNCHANGED <<tracks, arg, error, eventBuilder, trackBuilder, cutTracks, calls,
                   tasks, taken, finished, results, eventRepository,
                   sectionRepository, observers, stale, trackRepositories>>

NextParallel ==
    \/ \E sections \in ParallelSectionLists : Execute(sections)
    \/ \E w \in 1..NumProcesses : \E k \in 1..Len(tasks) : Take(w, k)
    \/ \E w \in 1..NumProcesses : \E k \in 1..Len(tasks) : Complete(w, k)
    \/ Join

SpecParallel == InitParallel /\ [][NextParallel]_vars

----------------------------------------------------------------------------
(* Properties of the parallel intersection pass *)

\* the intersect function called on every track one after the other
RECURSIVE SequentialEvents(_, _, _)
SequentialEvents(all_tracks, sections, k) ==
    IF k > Len(all_tracks) THEN <<>>
    ELSE run_intersect_on_single_track(all_tracks[k], sections).events
         \o SequentialEvents(all_tracks, sections, k + 1)

\* how often the event occurs in the list
Count(list, e) == Cardinality({ i \in 1..Len(list) : list[i] = e })

\* the events of the road user, in the order of the list
EventsOfRoadUser(list, id) ==
    LET Own(e) == e.road_user_id = id
    IN  SelectSeq(list, Own)

\* C7: whatever worker takes which track and in whatever order the workers
\* finish, the list execute returns holds every event as often as the
\* sequential run over all tracks does, and the events of each track in the
\* order the intersect function returned them
C7_ParallelEqualsSequential ==
    (op = "execute" /\ error = "none")
        => LET sequential == SequentialEvents(tracks, arg, 1)
           IN  /\ Len(events) = Len(sequential)
               /\ \A e \in Range(events) \cup Range(sequential) :
                     Count(events, e) = Count(sequential, e)
               /\ \A k \in 1..Len(tracks) :
                     EventsOfRoadUser(events, tracks[k].id)
                         = run_intersect_on_single_track(tracks[k], arg).events

\* a pass over several tracks, two workers at work, the last task finished
\* first, events of more than one track returned
C7_Witness ==
    /\ op = "execute"
    /\ error = "none"
    /\ Len(tracks) >= 2
    /\ finished[1] = Len(tasks)
    /\ \E j, k \in 1..Len(tasks) : taken[j] # taken[k]
    /\ \E e, f \in Range(events) : e.road_user_id # f.road_user_id
    /\ \E k \in 1..Len(tracks) : Len(EventsOfRoadUser(events, tracks[k].id)) >= 2

----------------------------------------------------------------------------
(* Properties of the intersection strategies *)

\* the points of a track as a section samples them
Sampled(track, section) == track_coordinates(track, get_offset(section, SECTION_ENTER))

\* the consecutive detection pairs (i, i + 1) whose segment shares a point
\* with the line of the section
CrossingPairs(track, section) ==
    { i \in 1..(Len(track.detections) - 1) :
        SegmentsIntersect(Sampled(track, section)[i], Sampled(track, section)[i + 1],
                          section.start, section.end) }

\* the event carries occurrence, frame and sampled position of the detection
StampedFrom(event, track, section, index) ==
    /\ event.occurrence = track.detections[index].occurrence
    /\ event.frame_number = track.detections[index].frame
    /\ event.event_coordinate = Sampled(track, section)[index]
    /\ event.road_user_id = track.id

FramesOf(evs) == [j \in 1..Len(evs) |-> evs[j].frame_number]

\* the frames of the later detections of the crossing pairs, in detection order
CrossingFrames(track, section) ==
    LET Crosses(frame) == (frame - 1) \in CrossingPairs(track, section)
    IN  SelectSeq([i \in 1..Len(track.detections) |-> track.detections[i].frame],
                  Crosses)

\* C1: a track with exactly one segment crossing the line of a section yields
\* exactly one event, and it is stamped from the later detection of that segment
C1_OneCrossingOneEvent ==
    (op = "intersect_line" /\ Cardinality(CrossingPairs(tracks[1], arg[1])) = 1)
        => /\ error = "none"
           /\ Len(events) = 1
           /\ \A i \in CrossingPairs(tracks[1], arg[1]) :
                StampedFrom(events[1], tracks[1], arg[1], i + 1)

\* a three-detection track crossing on its first segment only: the event is
\* the second detection's, not the last one's
C1_Witness ==
    /\ op = "intersect_line"
    /\ Len(tracks[1].detections) = 3
    /\ CrossingPairs(tracks[1], arg[1]) = {1}
    /\ Len(events) = 1
    /\ events[1].frame_number = 2

\* C2: one event per crossing detection pair and none for the others, in
\* increasing detection order: N crossing segments yield N events
C2_OneEventPerCrossingPair ==
    op = "intersect_line"
        => /\ error = "none"
           /\ Len(events) = Cardinality(CrossingPairs(tracks[1], arg[1]))
           /\ FramesOf(events) = CrossingFrames(tracks[1], arg[1])
           /\ \A j \in 1..Len(events) :
                StampedFrom(events[j], tracks[1], arg[1], events[j].frame_number)

\* a track crossing the same line twice, properly (no detection on the line)
C2_Witness ==
    /\ op = "intersect_line"
    /\ arg[1] = LineSlanted
    /\ CrossingPairs(tracks[1], arg[1]) = {1, 2}
    /\ Len(events) = 2
    /\ events[1].frame_number = 2 /\ events[2].frame_number = 3

\* the inside/outside mask of the track's points for an area
Mask(track, area) == are_coordinates_within_polygon(Sampled(track, area), area.coordinates)

\* the mask is outside up to a - 1, inside from a to b - 1, outside from b on
OneInsideRun(mask, a, b) ==
    /\ 1 < a /\ a < b /\ b <= Len(mask)
    /\ \A i \in 1..Len(mask) : mask[i] <=> (a <= i /\ i < b)

\* C3: outside, then inside, then outside again yields exactly SECTION_ENTER at
\* the first inside detection followed by SECTION_LEAVE at the first detection
\* outside again
C3_EnterThenLeave ==
    op = "intersect_area"
        => \A a, b \in 1..Len(tracks[1].detections) :
             OneInsideRun(Mask(tracks[1], arg[1]), a, b)
                => /\ error = "none"
                   /\ Len(events) = 2
                   /\ events[1].event_type = SECTION_ENTER
                   /\ StampedFrom(events[1], tracks[1], arg[1], a)
                   /\ events[2].event_type = SECTION_LEAVE
                   /\ StampedFrom(events[2], tracks[1], arg[1], b)
                   /\ events[1].occurrence <= events[2].occurrence

C3_Witness ==
    /\ op = "intersect_area"
    /\ OneInsideRun(Mask(tracks[1], arg[1]), 2, 3)
    /\ Len(events) = 2
    /\ events[1].event_type = SECTION_ENTER
    /\ events[2].event_type = SECTION_LEAVE

\* C4: a track whose first point is inside gets a synthetic SECTION_ENTER at
\* detection 0 with the direction vector from point 0 to point 1; a track
\* inside throughout yields exactly that event
C4_SyntheticEnter ==
    (op = "intersect_area" /\ Mask(tracks[1], arg[1])[1])
        => /\ error = "none"
           /\ Len(events) >= 1
           /\ events[1].event_type = SECTION_ENTER
           /\ StampedFrom(events[1], tracks[1], arg[1], 1)
           /\ events[1].direction_vector =
                [x1 |-> Sampled(tracks[1], arg[1])[2].x - Sampled(tracks[1], arg[1])[1].x,
                 x2 |-> Sampled(tracks[1], arg[1])[2].y - Sampled(tracks[1], arg[1])[1].y]
           /\ (\A i \in 1..Len(tracks[1].detections) : Mask(tracks[1], arg[1])[i])
                => Len(events) = 1

\* a moving track of three detections that stays inside the area
C4_Witness ==
    /\ op = "intersect_area"
    /\ Len(tracks[1].detections) = 3
    /\ \A i \in 1..3 : Mask(tracks[1], arg[1])[i]
    /\ Len(events) = 1
    /\ events[1].event_type = SECTION_ENTER
    /\ events[1].direction_vector # [x1 |-> 0, x2 |-> 0]

\* C8: the scene detector yields exactly two events for a track of N >= 2
\* detections, whatever the sections: ENTER_SCENE stamped from detection 0 and
\* LEAVE_SCENE stamped from detection N - 1, both without a section id
C8_TwoSceneEvents ==
    op = "detect_scene"
        => LET track == tracks[1]
               n == Len(track.detections)
           IN  /\ error = "none"
               /\ Len(events) = 2
               /\ events[1].event_type = ENTER_SCENE
               /\ events[1].occurrence = track.detections[1].occurrence
               /\ events[1].frame_number = track.detections[1].frame
               /\ events[1].event_coordinate =
                    Coordinate(track.detections[1].x, track.detections[1].y)
               /\ events[1].section_id = None
               /\ events[2].event_type = LEAVE_SCENE
               /\ events[2].occurrence = track.detections[n].occurrence
               /\ events[2].frame_number = track.detections[n].frame
               /\ events[2].event_coordinate =
                    Coordinate(track.detections[n].x, track.detections[n].y)
               /\ events[2].section_id = None

\* a track of three detections: the leave event is the third detection's
C8_Witness ==
    /\ op = "detect_scene"
    /\ Len(tracks[1].detections) = 3
    /\ Len(events) = 2
    /\ events[1].frame_number = 1
    /\ events[2].frame_number = 3

\* the events _detect yields for the k-th section of the list alone
BlockOf(track, sections, k) ==
    run_intersect_on_single_track(track, <<sections[k]>>).events

RECURSIVE ConcatBlocks(_, _, _)
ConcatBlocks(track, sections, k) ==
    IF k > Len(sections) THEN <<>>
    ELSE BlockOf(track, sections, k) \o ConcatBlocks(track, sections, k + 1)

\* later events come from later detections, at occurrences not earlier
DetectionOrdered(evs) ==
    \A j \in 1..(Len(evs) - 1) :
        /\ evs[j].frame_number < evs[j + 1].frame_number
        /\ evs[j].occurrence <= evs[j + 1].occurrence

\* C10 as stated: every event of the list of a single-track run occurs
\* strictly later than the event before it
C10_StrictOccurrenceOrder ==
    op = "run_intersect"
        => \A j \in 1..(Len(events) - 1) :
             events[j].occurrence < events[j + 1].occurrence

\* C10 amended: the list of a single-track run is the events of the first
\* section, then those of the second, and so on in the order of the section
\* list; within the events of one section later events are stamped from
\* later detections and their occurrences never decrease
C10_OrderedWithinSection ==
    op = "run_intersect"
        => /\ error = "none"
           /\ events = ConcatBlocks(tracks[1], arg, 1)
           /\ \A k \in 1..Len(arg) : DetectionOrdered(BlockOf(tracks[1], arg, k))

\* two sections that both yield events, the second starting earlier than the
\* first ends
C10_Witness ==
    /\ op = "run_intersect"
    /\ Len(arg) = 2
    /\ Len(BlockOf(tracks[1], arg, 1)) = 2
    /\ Len(BlockOf(tracks[1], arg, 2)) >= 1
    /\ Len(events) >= 3
    /\ events[2].occurrence > events[3].occurrence

\* the index of the later detection of the j-th crossing pair
RECURSIVE LaterOfCrossing(_, _, _, _)
LaterOfCrossing(track, section, j, from) ==
    IF from > Len(track.detections) - 1 THEN 0
    ELSE IF from \in CrossingPairs(track, section)
      THEN IF j = 1 THEN from + 1
           ELSE LaterOfCrossing(track, section, j - 1, from + 1)
    ELSE LaterOfCrossing(track, section, j, from + 1)

\* C19: the j-th event of the smallest-segments strategy belongs to the j-th
\* crossing pair (earlier, later): its direction vector is later minus earlier
\* of the sampled coordinates, its coordinate the later sampled point, its
\* occurrence and frame those of the later detection, although one event
\* builder is reused for all pairs of the track
C19_EventFieldsOfLaterDetection ==
    op = "intersect_line"
        => \A j \in 1..Len(events) :
             LET later == LaterOfCrossing(tracks[1], arg[1], j, 1)
                 points == Sampled(tracks[1], arg[1])
             IN  /\ later >= 2
                 /\ events[j].direction_vector =
                      [x1 |-> points[later].x - points[later - 1].x,
                       x2 |-> points[later].y - points[later - 1].y]
                 /\ events[j].event_coordinate = points[later]
                 /\ events[j].occurrence = tracks[1].detections[later].occurrence
                 /\ events[j].frame_number = tracks[1].detections[later].frame

\* two crossings in opposite directions: the second event does not carry the
\* direction vector the builder held after the first
C19_Witness ==
    /\ op = "intersect_line"
    /\ CrossingPairs(tracks[1], arg[1]) = {1, 2}
    /\ Len(events) = 2
    /\ events[1].direction_vector.x1 > 0
    /\ events[2].direction_vector.x1 < 0
    /\ events[1].event_coordinate # events[2].event_coordinate

\* the indices whose inside/outside state differs from the index before
Flips(mask) == { i \in 2..Len(mask) : mask[i] # mask[i - 1] }

\* C20: the events of the area-points strategy alternate SECTION_ENTER,
\* SECTION_LEAVE, ... starting with SECTION_ENTER; there are as many as
\* indices whose inside/outside state differs from the index before, plus one
\* if the first point is inside; no event is created at a later index whose
\* state did not change
C20_AlternatingEnterLeave ==
    op = "intersect_area"
        => LET mask == Mask(tracks[1], arg[1])
           IN  /\ error = "none"
               /\ Len(events) = Cardinality(Flips(mask)) + (IF mask[1] THEN 1 ELSE 0)
               /\ \A j \in 1..Len(events) :
                    /\ events[j].event_type =
                         (IF j % 2 = 1 THEN SECTION_ENTER ELSE SECTION_LEAVE)
                    /\ \/ events[j].frame_number \in Flips(mask)
                       \/ (j = 1 /\ mask[1] /\ events[j].frame_number = 1)
               /\ \A j \in 1..(Len(events) - 1) :
                    events[j].frame_number < events[j + 1].frame_number

\* inside, outside, inside again: synthetic enter, leave, enter
C20_Witness ==
    /\ op = "intersect_area"
    /\ Mask(tracks[1], arg[1]) = <<TRUE, FALSE, TRUE>>
    /\ Len(events) = 3
    /\ events[1].event_type = SECTION_ENTER
    /\ events[2].event_type = SECTION_LEAVE
    /\ events[3].event_type = SECTION_ENTER

----------------------------------------------------------------------------
(* Event repository and the event creation run: EventRepository, AddEvents, *)
(* ClearAllEvents, CreateEvents                                             *)

\* EventRepository.add_all: the events are stored, the observers notified once
EventRepository_add_all(repository, new_events) ==
    [events |-> repository.events \o new_events,
     notifications |-> Append(repository.notifications,
                              [added |-> new_events, removed |-> <<>>])]

\* EventRepository.clear: the repository is emptied, the observers notified once
EventRepository_clear(repository) ==
    [events |-> <<>>,
     notifications |-> Append(repository.notifications,
                              [added |-> <<>>, removed |-> repository.events])]

\* an Iterable[Event]: a list of the items, or an iterator over them
Iterable(lazy, items) == [items |-> items, lazy |-> lazy]

\* the truth value of an iterable: a list is true when it holds an item, an
\* iterator or generator object is always true
bool(iterable) == iterable.lazy \/ iterable.items # <<>>

\* fault seeded for C12: add_all is called whatever the batch holds
AddEvents_Unguarded(repository, new_events) ==
    EventRepository_add_all(repository, new_events.items)

\* AddEvents.__call__: `if events:` guards the call of add_all
AddEvents(repository, new_events) ==
    IF bool(new_events) THEN EventRepository_add_all(repository, new_events.items)
    ELSE repository

\* ClearAllEvents.__call__
ClearAllEvents(repository) == EventRepository_clear(repository)

\* the flat event list of a task and of the tasks after it, or the exception
\* of the first one that raised
JoinTaskResults(r, rest) ==
    IF r.error # "none" THEN [events |-> <<>>, error |-> r.error]
    ELSE IF rest.error # "none" THEN rest
    ELSE [events |-> r.events \o rest.events, error |-> "none"]

\* execute over all tracks from the k-th on: the flat event list, or the
\* exception of the first task that raised
RECURSIVE RunIntersectAll(_, _, _)
RunIntersectAll(all_tracks, sections, k) ==
    IF k > Len(all_tracks) THEN [events |-> <<>>, error |-> "none"]
    ELSE JoinTaskResults(run_intersect_on_single_track(all_tracks[k], sections),
                         RunIntersectAll(all_tracks, sections, k + 1))

\* the events a pass created are handed to AddEvents; a pass that raised
\* hands over nothing
PublishEvents(repository, r) ==
    IF r.error # "none"
      THEN [events |-> <<>>, error |-> r.error, repository |-> repository]
    ELSE [events |-> r.events, error |-> "none",
          repository |-> AddEvents(repository, Iterable(FALSE, r.events))]

\* SimpleCreateIntersectionEvents.__call__: the events of the intersection
\* pass are handed to AddEvents
CreateIntersectionEvents(repository, all_tracks, sections) ==
    IF sections = <<>>
      THEN [events |-> <<>>, error |-> "none", repository |-> repository]
    ELSE PublishEvents(repository, RunIntersectAll(all_tracks, sections, 1))

\* the scene events of one track appended, or its exception
SceneDetectStep(st, r) ==
    IF r.error # "none" THEN Raised(r.error, r.builder)
    ELSE Returned(st.events \o r.events, r.builder)

\* SceneActionDetector.detect over all tracks from the k-th on, one scene
\* event builder for all of them
RECURSIVE SceneDetectAll(_, _, _)
SceneDetectAll(st, all_tracks, k) ==
    IF k > Len(all_tracks) \/ st.error # "none" THEN st
    ELSE SceneDetectAll(
             SceneDetectStep(st, SceneActionDetector_detect(all_tracks[k], st.builder)),
             all_tracks, k + 1)

\* SimpleCreateSceneEvents.__call__: the scene events are handed to AddEvents
CreateSceneEvents(repository, all_tracks) ==
    PublishEvents(repository,
                  SceneDetectAll(Returned(<<>>, SceneEventBuilder), all_tracks, 1))

\* the outcome of a run whose intersection pass returned: computed holds
\* every event the run created
CreateEvents_outcome(intersected, scenes) ==
    [error |-> scenes.error,
     repository |-> scenes.repository,
     computed |-> intersected.events \o scenes.events]

\* the scene pass follows an intersection pass that returned
CreateEvents_scene_pass(intersected, all_tracks) ==
    IF intersected.error # "none"
      THEN [error |-> intersected.error, repository |-> intersected.repository,
            computed |-> <<>>]
    ELSE CreateEvents_outcome(intersected,
                              CreateSceneEvents(intersected.repository, all_tracks))

\* CreateEvents.__call__: clear the repository, create the intersection
\* events, create the scene events
CreateEvents_call(repository, all_tracks, sections) ==
    CreateEvents_scene_pass(
        CreateIntersectionEvents(ClearAllEvents(repository), all_tracks, sections),
        all_tracks)

----------------------------------------------------------------------------
(* Specification of the event repository and the event creation runs *)

\* a video name without the "_" that ends the hostname
MalformedVideoName == <<"myhostname.otdet">>

\* the track under another video name
OfVideo(track, video_name) ==
    [track EXCEPT !.detections =
        [i \in 1..Len(track.detections) |->
            [track.detections[i] EXCEPT !.video_name = video_name]]]

\* the k-th track of the event specification: to the column x = 2 and back,
\* or staying in the column x = 0
EventsTrack(k, path, video_name) == OfVideo(ParallelTrack(k, path), video_name)

\* the batches handed to AddEvents directly: none, one or both of the scene
\* events of a track, as a list or as an iterator
EventBatches(track) ==
    LET scene == SceneActionDetector_detect(track, SceneEventBuilder).events
    IN  { Iterable(lazy, items) : lazy \in BOOLEAN,
                                  items \in {<<>>, <<scene[1]>>, scene} }

InitEvents ==
    /\ \E n \in 1..2 :
          \E paths \in [1..n -> {<<0, 2, 0>>, <<0, 0, 0>>}],
             names \in [1..n -> {VideoName, MalformedVideoName}] :
              tracks = [k \in 1..n |-> EventsTrack(k, paths[k], names[k])]
    /\ InitCommon

\* the repository call handed back
FinishRepositoryCall(name, input, computed, raised, repository) ==
    /\ calls < MaxRepositoryCalls
    /\ calls' = calls + 1
    /\ op' = name
    /\ arg' = input
    /\ events' = computed
    /\ error' = raised
    /\ eventRepository' = repository
    /\ UNCHANGED <<tracks, eventBuilder, trackBuilder, cutTracks, tasks, taken,
                   finished, results, sectionRepository, observers, stale,
                   trackRepositories>>

\* the run handed back: the events it created, its exception, the repository
FinishCreateEvents(sections, r) ==
    FinishRepositoryCall("create_events", sections, r.computed, r.error, r.repository)

\* one run of CreateEvents with the given sections in the section repository
CreateEvents(sections) ==
    FinishCreateEvents(sections, CreateEvents_call(eventRepository, tracks, sections))

\* AddEvents called with a batch
AddEventsCall(batch) ==
    FinishRepositoryCall("add_events", <<batch>>, <<>>, "none",
                         AddEvents(eventRepository, batch))

\* ClearAllEvents called
ClearAllEventsCall ==
    FinishRepositoryCall("clear", <<>>, <<>>, "none", ClearAllEvents(eventRepository))

NextEvents ==
    \/ \E sections \in {<<>>, <<LineMiddle>>, <<LineMiddle, AreaRight>>} :
          CreateEvents(sections)
    \/ \E batch \in EventBatches(OfVideo(tracks[1], VideoName)) : AddEventsCall(batch)
    \/ ClearAllEventsCall

SpecEvents == InitEvents /\ [][NextEvents]_vars

----------------------------------------------------------------------------
(* Properties of the event repository and the event creation runs *)

\* C11: an event creation run has no partial outcome: when it raises, no
\* event it computed is in the event repository, otherwise the repository
\* holds the full batch
C11_NoPartialSuccess ==
    op = "create_events"
        => IF error # "none"
             THEN /\ \A e \in Range(events) : e \notin Range(eventRepository.events)
                  /\ eventRepository.events = <<>>
             ELSE eventRepository.events = events

\* C12: AddEvents hands a batch that is true (a list that holds events, or
\* any iterator) to add_all once: every event of the batch is stored behind
\* those stored before and the observers are notified exactly once, with
\* (added = the events of the batch, removed = empty); an empty list
\* changes nothing. A clear empties the repository and notifies exactly once,
\* with (added = empty, removed = the events stored before)
C12_NotifiedOncePerCall ==
    [][ /\ (op' = "add_events" /\ bool(arg'[1]))
            => /\ eventRepository'.events = eventRepository.events \o arg'[1].items
               /\ eventRepository'.notifications
                    = Append(eventRepository.notifications,
                             [added |-> arg'[1].items, removed |-> <<>>])
        /\ (op' = "add_events" /\ ~bool(arg'[1]))
            => eventRepository' = eventRepository
        /\ op' = "clear"
            => /\ eventRepository'.events = <<>>
               /\ eventRepository'.notifications
                    = Append(eventRepository.notifications,
                             [added |-> <<>>, removed |-> eventRepository.events])
      ]_vars

\* two events added in one batch, then cleared: two notifications, the
\* second with both events removed
C12_Witness ==
    /\ op = "clear"
    /\ eventRepository.events = <<>>
    /\ Len(eventRepository.notifications) = 2
    /\ Len(eventRepository.notifications[1].added) = 2
    /\ eventRepository.notifications[2].removed
         = eventRepository.notifications[1].added

----------------------------------------------------------------------------
(* Properties of the cutting engine: sub-tracks of fewer than two detections *)

\* the crossed segments of the track in ascending order
CutPositions(track, cutting_section) ==
    LET cuts == CutPairs(track, cutting_section)
    IN  CHOOSE seq \in [1..Cardinality(cuts) -> cuts] :
            \A i, j \in 1..Cardinality(cuts) : i < j => seq[i] < seq[j]

\* the detections the j-th sub-track is closed with, when the track builder
\* holds `held` as the call begins
Piece(held, track, cutting_section, j) ==
    LET cuts == CutPositions(track, cutting_section)
        from == IF j = 1 THEN 1 ELSE cuts[j - 1] + 1
        to == IF j > Len(cuts) THEN Len(track.detections) ELSE cuts[j]
    IN  (IF j = 1 THEN held.detections ELSE <<>>) \o SubSeq(track.detections, from, to)

\* the j-th sub-track is the first one that cannot be constructed
FirstInvalidPiece(held, track, cutting_section, j) ==
    /\ Len(Piece(held, track, cutting_section, j)) < 2
       \/ ~SortedByOccurrence(Piece(held, track, cutting_section, j))
    /\ \A i \in 1..(j - 1) :
          /\ Len(Piece(held, track, cutting_section, i)) >= 2
          /\ SortedByOccurrence(Piece(held, track, cutting_section, i))

\* C13: when a cutting call comes to close a sub-track of fewer than two
\* detections, the call fails with BuildTrackWithSingleDetectionError and
\* returns nothing; a call that returns hands back one sub-track more than
\* segments are crossed, each with its detections and at least two of them
C13_SingleDetectionSubTrackRejected ==
    [][ (op' = "cut" /\ calls' = calls + 1)
            => LET track == tracks[1]
                   pieces == Cardinality(CutPairs(track, arg'[1])) + 1
               IN  /\ \A j \in 1..pieces :
                         (/\ FirstInvalidPiece(trackBuilder, track, arg'[1], j)
                          /\ Len(Piece(trackBuilder, track, arg'[1], j)) < 2)
                            => /\ error' = "BuildTrackWithSingleDetectionError"
                               /\ cutTracks' = <<>>
                   /\ error' = "none"
                        => /\ Len(cutTracks') = pieces
                           /\ \A j \in 1..pieces :
                                 /\ Len(cutTracks'[j].detections) >= 2
                                 /\ Restored(cutTracks'[j].detections, track)
                                      = Piece(trackBuilder, track, arg'[1], j)
      ]_vars

\* two adjacent segments crossed: the sub-track between them would hold the
\* third detection only, and the call failed
C13_Witness ==
    /\ op = "cut"
    /\ calls = 1
    /\ CutPairs(tracks[1], arg[1]) = {2, 3}
    /\ error = "BuildTrackWithSingleDetectionError"
    /\ cutTracks = <<>>

----------------------------------------------------------------------------
(* Specification of the constructors and the event builders: Track,         *)
(* LineSection and Area are constructed from drawn inputs, the fields of an *)
(* event builder are set one by one and create_event is called              *)

\* a detection list with the given occurrences
DetectionsAt(occurrences) ==
    [i \in 1..Len(occurrences) |->
        Detection("car", 5, 0, 0, 1, 1, i, occurrences[i], <<1>>, VideoName)]

\* the coordinates rings are drawn from
RingPoints == {Coordinate(0, 0), Coordinate(1, 0), Coordinate(0, 1)}

\* tracks holds the track whose detections create_event is called with
InitConstruct ==
    /\ tracks = <<IntersectTrack(2, <<0, 1>>, <<0, 0>>, "car")>>
    /\ op = "idle"
    /\ arg = <<>>
    /\ events = <<>>
    /\ error = "none"
    /\ eventBuilder \in {SectionEventBuilder, SceneEventBuilder}
    /\ trackBuilder = EmptyTrackBuilder
    /\ cutTracks = <<>>
    /\ calls = 0
    /\ tasks = <<>>
    /\ taken = <<>>
    /\ finished = <<>>
    /\ results = <<>>
    /\ eventRepository = [events |-> <<>>, notifications |-> <<>>]
    /\ sectionRepository = <<>>
    /\ observers = NoObservers
    /\ stale = FALSE
    /\ trackRepositories = NoTrackRepositories

\* the constructor returned or raised
FinishConstruct(name, input, raised) ==
    /\ op = "idle"
    /\ op' = name
    /\ arg' = input
    /\ error' = raised
    /\ UNCHANGED <<tracks, events, eventBuilder, trackBuilder, cutTracks, calls, tasks,
                   taken, finished, results, eventRepository,
                   sectionRepository, observers, stale, trackRepositories>>

\* Track(id, classification, detections)
ConstructTrack(detections) ==
    FinishConstruct("Track", detections, Track_validate(<<1>>, detections))

\* LineSection(id, offsets, plugin_data, start, end)
ConstructLineSection(start, end) ==
    FinishConstruct("LineSection", <<start, end>>, LineSection_validate(start, end))

\* Area(id, offsets, plugin_data, coordinates)
ConstructArea(coordinates) ==
    FinishConstruct("Area", coordinates, Area_validate(coordinates))

\* one of the add methods of the event builder
SetBuilderField(builder) ==
    /\ op = "idle"
    /\ eventBuilder' = builder
    /\ UNCHANGED <<tracks, op, arg, events, error, trackBuilder, cutTracks, calls,
                   tasks, taken, finished, results, eventRepository,
                   sectionRepository, observers, stale, trackRepositories>>

AddSectionId ==
    /\ eventBuilder.kind = "section"
    /\ SetBuilderField(add_section_id(eventBuilder, "N"))
AddEventType == SetBuilderField(add_event_type(eventBuilder, SECTION_ENTER))
AddRoadUserType == SetBuilderField(add_road_user_type(eventBuilder, "car"))
AddDirectionVector ==
    SetBuilderField(add_direction_vector(eventBuilder,
                        calculate_direction_vector(Coordinate(0, 0), Coordinate(1, 0))))
AddEventCoordinate == SetBuilderField(add_event_coordinate(eventBuilder, 1, 1))

\* create_event(detection) on the event builder as it is
CreateEventCall(detection) ==
    /\ op = "idle"
    /\ op' = "create_event"
    /\ arg' = <<detection>>
    /\ error' = create_event_error(eventBuilder, detection)
    /\ events' = IF create_event_error(eventBuilder, detection) = "none"
                   THEN <<create_event(eventBuilder, detection)>>
                   ELSE <<>>
    /\ UNCHANGED <<tracks, eventBuilder, trackBuilder, cutTracks, calls, tasks, taken,
                   finished, results, eventRepository,
                   sectionRepository, observers, stale, trackRepositories>>

NextConstruct ==
    \/ \E n \in 0..MaxDetections : \E occurrences \in [1..n -> 1..MaxDetections] :
          ConstructTrack(DetectionsAt(occurrences))
    \/ \E x1, x2 \in Xs : \E y1, y2 \in Ys :
          ConstructLineSection(Coordinate(x1, y1), Coordinate(x2, y2))
    \/ \E n \in 0..MaxRing : \E coordinates \in [1..n -> RingPoints] :
          ConstructArea(coordinates)
    \/ AddSectionId
    \/ AddEventType
    \/ AddRoadUserType
    \/ AddDirectionVector
    \/ AddEventCoordinate
    \/ \E k \in 1..Len(tracks[1].detections) :
          CreateEventCall(tracks[1].detections[k])

SpecConstruct == InitConstruct /\ [][NextConstruct]_vars

----------------------------------------------------------------------------
(* Properties of the constructors and the event builders *)

\* some detection has an earlier occurrence than a detection before it
OutOfOrder(detections) ==
    \E i, j \in 1..Len(detections) :
        i < j /\ detections[i].occurrence > detections[j].occurrence

\* C14: a Track of fewer than two detections is rejected with
\* BuildTrackWithSingleDetectionError, a Track whose detections are not
\* sorted by occurrence with ValueError, every other detection list is accepted
C14_TrackConstruction ==
    op = "Track"
        => /\ Len(arg) < 2 => error = "BuildTrackWithSingleDetectionError"
           /\ (Len(arg) >= 2 /\ OutOfOrder(arg)) => error = "ValueError"
           /\ (Len(arg) >= 2 /\ ~OutOfOrder(arg)) => error = "none"

\* three detections, the last one earlier than the second: rejected
C14_Witness ==
    /\ op = "Track"
    /\ Len(arg) = 3
    /\ arg[3].occurrence < arg[2].occurrence
    /\ arg[1].occurrence <= arg[2].occurrence
    /\ error = "ValueError"

\* C15 as stated: in every constructed Track no two consecutive detections
\* have the same occurrence, the order is strict
C15_StrictlyOrdered ==
    (op = "Track" /\ error = "none")
        => \A i \in 1..(Len(arg) - 1) : arg[i].occurrence < arg[i + 1].occurrence

\* C15 amended: in every constructed Track no detection has an earlier
\* occurrence than the detection before it; two consecutive detections may
\* have the same occurrence, and every list of at least two detections so
\* ordered is constructed
C15_OrderedWithTies ==
    op = "Track"
        => /\ error = "none"
                => \A i \in 1..(Len(arg) - 1) :
                      arg[i].occurrence <= arg[i + 1].occurrence
           /\ (/\ Len(arg) >= 2
               /\ \A i \in 1..(Len(arg) - 1) :
                     arg[i].occurrence <= arg[i + 1].occurrence)
                => error = "none"

\* a constructed Track whose first two detections have the same occurrence
C15_Witness ==
    /\ op = "Track"
    /\ error = "none"
    /\ Len(arg) = 3
    /\ arg[1].occurrence = arg[2].occurrence
    /\ arg[2].occurrence < arg[3].occurrence

\* C16: a LineSection whose start equals its end is rejected with
\* ValueError, every other one is constructed
C16_LineSectionConstruction ==
    op = "LineSection"
        => /\ (arg[1].x = arg[2].x /\ arg[1].y = arg[2].y) => error = "ValueError"
           /\ (arg[1].x # arg[2].x \/ arg[1].y # arg[2].y) => error = "none"

\* a vertical line section (both ends in the same column) is constructed
C16_Witness ==
    /\ op = "LineSection"
    /\ arg[1].x = arg[2].x
    /\ arg[1].y # arg[2].y
    /\ error = "none"

\* C17: an Area of fewer than four coordinates or whose first coordinate
\* differs from the last is rejected with ValueError, every closed ring of
\* at least four coordinates is constructed
C17_AreaConstruction ==
    op = "Area"
        => /\ Len(arg) < 4 => error = "ValueError"
           /\ (Len(arg) >= 4 /\ arg[1] # arg[Len(arg)]) => error = "ValueError"
           /\ (Len(arg) >= 4 /\ arg[1] = arg[Len(arg)]) => error = "none"

\* a closed list of three coordinates is rejected
C17_Witness ==
    /\ op = "Area"
    /\ Len(arg) = 3
    /\ arg[1] = arg[3]
    /\ arg[1] # arg[2]
    /\ error = "ValueError"

\* every field create_event requires of the builder is set
RequiredFieldsSet(builder) ==
    /\ builder.kind = "section" => builder.section_id # None
    /\ builder.event_type # None
    /\ builder.direction_vector # NoneRecord
    /\ builder.event_coordinate # NoneRecord

\* C18: create_event raises IncompleteEventBuilderSetup and returns no event
\* whenever a required field of the builder (the section id of a section
\* builder, the event type, the direction vector, the event coordinate) is
\* not set, whatever fields were set in whatever order; with all of them set
\* it returns the event built from the fields
C18_IncompleteBuilderRejected ==
    op = "create_event"
        => /\ ~RequiredFieldsSet(eventBuilder)
                => (error = "IncompleteEventBuilderSetup" /\ events = <<>>)
           /\ RequiredFieldsSet(eventBuilder)
                => /\ error = "none"
                   /\ Len(events) = 1
                   /\ events[1].event_type = eventBuilder.event_type
                   /\ events[1].direction_vector = eventBuilder.direction_vector
                   /\ events[1].event_coordinate = eventBuilder.event_coordinate
                   /\ events[1].section_id = eventBuilder.section_id
                   /\ events[1].occurrence = arg[1].occurrence

\* a section builder with every field but the event coordinate set
C18_Witness ==
    /\ op = "create_event"
    /\ eventBuilder.kind = "section"
    /\ eventBuilder.section_id # None
    /\ eventBuilder.event_type # None
    /\ eventBuilder.direction_vector # NoneRecord
    /\ eventBuilder.road_user_type # None
    /\ eventBuilder.event_coordinate = NoneRecord
    /\ error = "IncompleteEventBuilderSetup"

----------------------------------------------------------------------------
(* Specification of the splitting strategy: one track over the grid, of any *)
(* shape (standing still, turning back and crossing itself included),       *)
(* intersected with a line section by SimpleIntersectBySplittingTrackLine   *)
(* and by SimpleIntersectBySmallestTrackSegments                            *)

\* a line no grid point lies on, crossed by every vertical step
LineFlat == LineSection("L4", Offsets(0, 0), EmptyDict, Coordinate(-1, 0), Coordinate(4, 1))
\* a line through the grid point (1, 0) and no other, parallel to no step
LineThrough == LineSection("L5", Offsets(0, 0), EmptyDict, Coordinate(0, -2), Coordinate(2, 2))

\* a line along the row y = 0 between the grid points (1, 0) and (2, 0): a
\* step from (0, 0) to (3, 0) runs along it
LineAlong == LineSection("L6", Offsets(0, 0), EmptyDict, Coordinate(1, 0), Coordinate(2, 0))

SplitSections == {LineFlat, LineThrough, LineAlong}

\* the columns of the splitting specification
SplitXs == 0..3

InitSplit ==
    /\ \E n \in 2..MaxSplitDetections :
          \E xs \in [1..n -> SplitXs], ys \in [1..n -> Ys] :
              tracks = <<IntersectTrack(n, xs, ys, "car")>>
    /\ InitCommon

\* the detector the tests build over the splitting intersector
SplittingDetector(section) ==
    [intersector |-> [section |-> section, strategy |-> "SplittingTrackLine"],
     section_event_builder |-> SectionEventBuilder]

\* a SectionActionDetector over the splitting intersector of a line section
DetectSplit(section) ==
    /\ op = "idle"
    /\ Finish("intersect_split", <<section>>,
              SectionActionDetector_detect(SplittingDetector(section), section,
                                           tracks[1]))

NextSplit == \E section \in SplitSections : DetectSplit(section)

SpecSplit == InitSplit /\ [][NextSplit]_vars

----------------------------------------------------------------------------
(* Properties of the splitting strategy *)

\* the sub-lines of the sampled track
SplitOf(track, section) ==
    split_line_with_line(Sampled(track, section), get_coordinates(section))

\* the points of the first n sub-lines
RECURSIVE PointCount(_, _)
PointCount(pieces, n) ==
    IF n = 0 THEN 0 ELSE PointCount(pieces, n - 1) + Len(pieces[n])

\* some sampled point of the track lies on the line of the section
TouchesWithDetection(track, section) ==
    \E i \in 1..Len(track.detections) :
        OnSegment(section.start, section.end, Sampled(track, section)[i])

\* the events of the smallest-segments strategy for the same track and section
SmallestSegmentsEvents(track, section) ==
    SectionActionDetector_detect(SelectDetector(NoneRecord, section), section,
                                 track).events

\* the later detections of the segments of the track the splits lie in, a
\* split at a detection belonging to the segment that ends there
RECURSIVE CrossedSegments(_, _, _, _)
CrossedSegments(line, a, b, i) ==
    IF i > Len(line) - 1 THEN <<>>
    ELSE (IF \/ CrossesInside(line[i], line[i + 1], a, b)
             \/ (i + 1 < Len(line) /\ OnSegment(a, b, line[i + 1]))
            THEN <<i + 1>> ELSE <<>>)
         \o CrossedSegments(line, a, b, i + 1)

\* C21: with k + 1 sub-lines the splitting strategy returns k events; the
\* n-th is stamped from the detection at index (points of the first n
\* sub-lines) - 2n + 1, a valid index in 1..len(detections)-1 that is the
\* later detection of the n-th crossed segment of the track
C21_StampedFromCrossedSegment ==
    (op = "intersect_split" /\ Len(SplitOf(tracks[1], arg[1])) >= 2)
        => /\ error = "none"
           /\ Len(events) = Len(SplitOf(tracks[1], arg[1])) - 1
           /\ \A n \in 1..Len(events) :
                LET index == PointCount(SplitOf(tracks[1], arg[1]), n) - 2 * n + 1
                IN  /\ index \in 1..(Len(tracks[1].detections) - 1)
                    /\ events[n].frame_number = tracks[1].detections[index + 1].frame
                    /\ index + 1 = CrossedSegments(Sampled(tracks[1], arg[1]),
                                                    arg[1].start, arg[1].end, 1)[n]

RunsAlong(track, section) ==
    \E i \in 1..(Len(track.detections) - 1) :
        /\ Orient(section.start, section.end, Sampled(track, section)[i]) = 0
        /\ Orient(section.start, section.end, Sampled(track, section)[i + 1]) = 0
        /\ SegmentsIntersect(Sampled(track, section)[i], Sampled(track, section)[i + 1],
                             section.start, section.end)

\* the segments i and j > i of the line share no more than the point that
\* joins them
Apart(line, i, j) ==
    IF j = i + 1
      THEN /\ ~OnSegment(line[i], line[i + 1], line[i + 2])
           /\ ~OnSegment(line[i + 1], line[i + 2], line[i])
    ELSE ~SegmentsIntersect(line[i], line[i + 1], line[j], line[j + 1])

\* the line is simple: no point twice in a row, no segment touching or
\* crossing another beyond the point that joins neighbours
IsSimple(line) ==
    /\ \A i \in 1..(Len(line) - 1) : line[i] # line[i + 1]
    /\ \A i, j \in 1..(Len(line) - 1) : i < j => Apart(line, i, j)

----------------------------------------------------------------------------
(* Specification of the cutting engine on long tracks: a track that swaps   *)
(* between the two outer columns is long enough to be cut more than once    *)

InitCutLong ==
    /\ \E n \in 2..MaxLongDetections :
          \E xs \in [1..n -> {0, MaxX}] :
              tracks = <<CutTrackInput(n, xs, 0)>>
    /\ InitCommon

SpecCutLong == InitCutLong /\ [][NextCut]_vars

\* C23: a cutting call that returns hands back, for a track with id T crossed
\* on m segments, m + 1 sub-tracks in detection order with the ids T_1 ..
\* T_(m+1), every detection carrying the id of its sub-track; every sub-track
\* after the first holds the detections between two crossings, the first
\* ends with the detections up to the first crossing, and with m = 0 the
\* single sub-track T_1 contains all detections of the track
C23_SubTracksNumbered ==
    [][ (op' = "cut" /\ calls' = calls + 1 /\ error' = "none")
            => LET track == tracks[1]
                   m == Cardinality(CutPairs(track, arg'[1]))
               IN  /\ Len(cutTracks') = m + 1
                   /\ \A j \in 1..(m + 1) :
                         /\ cutTracks'[j].id = Append(track.id, j)
                         /\ \A i \in 1..Len(cutTracks'[j].detections) :
                               cutTracks'[j].detections[i].track_id = cutTracks'[j].id
                         /\ Restored(cutTracks'[j].detections, track)
                              = Piece(trackBuilder, track, arg'[1], j)
                   /\ m = 0
                        => \E from \in 1..Len(cutTracks'[1].detections) :
                              SubSeq(Restored(cutTracks'[1].detections, track), from,
                                     Len(cutTracks'[1].detections))
                                = track.detections
      ]_vars

\* a track of six detections crossed on its second and on its fourth segment
\* is cut by the first call into three sub-tracks of two detections
C23_Witness ==
    /\ op = "cut"
    /\ calls = 1
    /\ error = "none"
    /\ CutPairs(tracks[1], arg[1]) = {2, 4}
    /\ Len(cutTracks) = 3
    /\ \A j \in 1..3 : /\ cutTracks[j].id = <<1, j>>
                       /\ Len(cutTracks[j].detections) = 2

\* a track that is not crossed comes back whole as its sub-track T_1
C23_WitnessUncut ==
    /\ op = "cut"
    /\ calls = 1
    /\ error = "none"
    /\ CutPairs(tracks[1], arg[1]) = {}
    /\ Len(cutTracks) = 1
    /\ cutTracks[1].id = <<1, 1>>
    /\ Restored(cutTracks[1].detections, tracks[1]) = tracks[1].detections

----------------------------------------------------------------------------
(* Specification of the track builder and the classification calculator:    *)
(* ids and detections are added to one SimpleCutTrackSegmentBuilder in any  *)
(* order, build and reset are called at any time, and                       *)
(* CalculateTrackClassificationByMaxConfidence is called on the detections  *)
(* the builder holds                                                        *)

SubTrackIds == {<<1, 1>>, <<1, 2>>}
Classifications == {"car", "truck"}
\* confidences in tenths: 0.0, 0.5 and 1.0
Confidences == {0, 5, 10}

InitBuilder ==
    /\ tracks = <<>>
    /\ InitCommon

\* what a call on the builder leaves behind
FinishBuilder(name, detections, builder, outcome, built, label) ==
    /\ op' = name
    /\ arg' = detections
    /\ trackBuilder' = builder
    /\ error' = outcome
    /\ cutTracks' = built
    /\ results' = label
    /\ UNCHANGED <<tracks, events, eventBuilder, calls, tasks, taken, finished,
                   eventRepository, sectionRepository, observers, stale, trackRepositories>>

BuilderAddId(track_id) ==
    FinishBuilder("add_id", <<>>, add_id(trackBuilder, track_id), "none", <<>>, <<>>)

BuilderAddDetection(detection) ==
    /\ Len(trackBuilder.detections) < MaxBuilderDetections
    /\ FinishBuilder("add_detection", <<>>, add_detection(trackBuilder, detection),
                     "none", <<>>, <<>>)

\* the outcome of build handed to the caller
BuilderBuilt(detections, r) ==
    FinishBuilder("build", detections, r.builder, r.error,
                  IF r.error = "none" THEN <<r.track>> ELSE <<>>, <<>>)

BuilderBuild == BuilderBuilt(trackBuilder.detections, build(trackBuilder))

BuilderReset ==
    FinishBuilder("reset", <<>>, EmptyTrackBuilder, "none", <<>>, <<>>)

\* the label calculate returned; max() of the empty dict raises ValueError
CalculateReturned(detections) ==
    IF detections = <<>>
      THEN FinishBuilder("calculate", detections, trackBuilder, "ValueError", <<>>, <<>>)
    ELSE FinishBuilder("calculate", detections, trackBuilder, "none", <<>>,
                       <<CalculateTrackClassificationByMaxConfidence(detections)>>)

\* CalculateTrackClassificationByMaxConfidence.calculate on the detections
\* the builder holds
Calculate == CalculateReturned(trackBuilder.detections)

NextBuilder ==
    \/ \E track_id \in SubTrackIds : BuilderAddId(track_id)
    \/ \E classification \in Classifications, confidence \in Confidences,
          occurrence \in 1..2 :
          BuilderAddDetection(Detection(classification, confidence, 0, 0, 1, 1,
                                        occurrence, occurrence, <<1>>, VideoName))
    \/ BuilderBuild
    \/ BuilderReset
    \/ Calculate

SpecBuilder == InitBuilder /\ [][NextBuilder]_vars

\* C24: a build that succeeds leaves the builder without id and without
\* detections and hands back the track of the id and the detections the
\* builder held; a build on a builder without id raises TrackBuilderError,
\* hands back no track and leaves the builder as it was
C24_BuilderResetAfterBuild ==
    [][ op' = "build"
            => /\ error' = "none"
                    => /\ trackBuilder' = EmptyTrackBuilder
                       /\ Len(cutTracks') = 1
                       /\ cutTracks'[1].id = trackBuilder.track_id
                       /\ Len(cutTracks'[1].detections) = Len(trackBuilder.detections)
                       /\ \A i \in 1..Len(trackBuilder.detections) :
                             cutTracks'[1].detections[i]
                               = [trackBuilder.detections[i]
                                    EXCEPT !.track_id = trackBuilder.track_id]
               /\ trackBuilder.track_id = NoTrackId
                    => /\ error' = "TrackBuilderError"
                       /\ cutTracks' = <<>>
                       /\ trackBuilder' = trackBuilder
      ]_vars

\* a track of two detections was built and the builder is empty again
C24_Witness ==
    /\ op = "build"
    /\ error = "none"
    /\ Len(cutTracks) = 1
    /\ Len(cutTracks[1].detections) = 2
    /\ trackBuilder = EmptyTrackBuilder

\* position of the first detection carrying the label
FirstWith(detections, label) ==
    CHOOSE i \in 1..Len(detections) :
        /\ detections[i].classification = label
        /\ \A j \in 1..(i - 1) : detections[j].classification # label

\* C25: on a list that holds a detection calculate returns, without
\* raising, a label of the list whose summed confidence is maximal, and of the labels with the maximal sum the one whose first
\* detection comes first in the list
C25_MaxConfidenceFirstWins ==
    (op = "calculate" /\ arg # <<>>)
        => /\ error = "none"
           /\ HasMaxConfidenceSum(results[1], arg)
           /\ \A i \in 1..Len(arg) :
                 ConfidenceSum(arg, arg[i].classification)
                     = ConfidenceSum(arg, results[1])
                   => FirstWith(arg, results[1]) <= i

\* two labels tie with a positive sum, the list ends with the label returned
\* and begins with it
C25_Witness ==
    /\ op = "calculate"
    /\ error = "none"
    /\ Len(arg) = 3
    /\ arg[1].classification = results[1]
    /\ arg[2].classification # results[1]
    /\ arg[3].classification = results[1]
    /\ ConfidenceSum(arg, arg[2].classification) = ConfidenceSum(arg, results[1])
    /\ ConfidenceSum(arg, results[1]) > 0

----------------------------------------------------------------------------
(* Properties of the road user type of the events *)

\* C26: every event an intersection strategy returns for a track carries the
\* classification of the track as its road user type, the synthetic first
\* SECTION_ENTER of the area strategy and the events after it included
C26_RoadUserTypeOfTrack ==
    (op \in {"intersect_line", "intersect_area", "run_intersect"} /\ error = "none")
        => \A j \in 1..Len(events) :
              events[j].road_user_type = tracks[1].classification

----------------------------------------------------------------------------
(* Specification of the invalidation of the event repository: tracks and    *)
(* sections are changed through their repositories, which notify the        *)
(* observers registered with them; ClearAllEvents is registered subject by  *)
(* subject; events are created from the tracks and sections held            *)

\* ClearAllEvents.clear
ClearAllEvents_clear(repository) == EventRepository_clear(repository)

\* ClearAllEvents.notify_sections
notify_sections(repository) == ClearAllEvents_clear(repository)

\* ClearAllEvents.notify_tracks
notify_tracks(repository) == ClearAllEvents_clear(repository)

\* fault seeded for C27: a changed section is ignored
on_section_changed_Ignores(repository) == repository

\* ClearAllEvents.on_section_changed
on_section_changed(repository) == ClearAllEvents_clear(repository)

\* ClearAllEvents.on_tracks_cut
on_tracks_cut(repository) == ClearAllEvents_clear(repository)

\* the handler of ClearAllEvents the subject calls
Handler(repository, subject) ==
    IF subject = "tracks" THEN notify_tracks(repository)
    ELSE IF subject = "sections" THEN notify_sections(repository)
    ELSE IF subject = "section_changed" THEN on_section_changed(repository)
    ELSE on_tracks_cut(repository)

\* the handler called once for each of the n registrations left
RECURSIVE NotifyEach(_, _, _)
NotifyEach(repository, subject, n) ==
    IF n = 0 THEN repository
    ELSE NotifyEach(Handler(repository, subject), subject, n - 1)

\* Subject.notify: the handler of ClearAllEvents runs once for each of its
\* registrations with the subject
Notify(repository, registered, subject) ==
    NotifyEach(repository, subject, registered[subject])

\* the subjects ClearAllEvents is registered with
Registered == { subject \in Subjects : observers[subject] > 0 }

\* dict[item.id] = item: an item with the id is replaced in place, a new
\* one is put behind the others
PutById(content, item) ==
    IF \E i \in 1..Len(content) : content[i].id = item.id
      THEN [i \in 1..Len(content) |->
               IF content[i].id = item.id THEN item ELSE content[i]]
      ELSE Append(content, item)

\* del dict[id]
DeleteById(content, id) ==
    LET Other(item) == item.id # id
    IN  SelectSeq(content, Other)

\* a track along the row y = 0
ClearTrack(k, xs) ==
    BuildTrack(<<k>>, 4, xs, [i \in 1..4 |-> 0], [i \in 1..4 |-> "car"],
               [i \in 1..4 |-> 5], 1)

\* the tracks added to the track repository
ClearTracks == {ClearTrack(1, <<2, 2, 0, 0>>), ClearTrack(2, <<2, 2, 0, 0>>)}

\* the section L1 moved to the column x = 3
LineMoved == LineSection("L1", Offsets(0, 0), EmptyDict, Coordinate(3, 0), Coordinate(3, 1))

ClearSections == {LineMiddle, LineMoved}

\* the lists handed to SectionRepository.add_all
ClearSectionLists == {<<>>, <<LineMoved>>, <<LineMiddle, AreaRight>>}

\* the key and the values of the plugin data, the ids they are attached to
PluginKey == "k"
PluginValues == {<<<<"a", 1>>>>, <<<<"b", 2>>>>}
PluginSectionIds == {"L1", "A1"}

InitClear ==
    /\ tracks = <<ClearTrack(1, <<0, 0, 2, 2>>)>>
    /\ InitCommon

\* an operation on the repositories returned
FinishClear(name, track_content, section_content, computed, raised, repository) ==
    /\ calls < MaxClearCalls
    /\ calls' = calls + 1
    /\ op' = name
    /\ arg' = <<>>
    /\ tracks' = track_content
    /\ sectionRepository' = section_content
    /\ events' = computed
    /\ error' = raised
    /\ eventRepository' = repository
    /\ stale' = /\ repository.events # <<>>
                /\ \/ stale
                   \/ track_content # tracks
                   \/ section_content # sectionRepository
    /\ UNCHANGED <<eventBuilder, trackBuilder, cutTracks, tasks, taken, finished,
                   results, observers, trackRepositories>>

\* register_tracks_observer, register_section_changed_observer and the
\* registration with the tracks-cut use case keep a set of observers: a
\* second registration changes nothing. register_sections_observer appends to
\* a list: ClearAllEvents is registered once more
RegisterObserver(subject) ==
    /\ subject = "sections" => observers[subject] < MaxRegistrations
    /\ observers' = [observers EXCEPT ![subject] =
                        IF subject = "sections" THEN @ + 1 ELSE 1]
    /\ UNCHANGED <<tracks, op, arg, events, error, eventBuilder, trackBuilder,
                   cutTracks, calls, tasks, taken, finished, results,
                   eventRepository, sectionRepository, stale, trackRepositories>>

\* TrackRepository.add
TrackRepositoryAdd(track) ==
    FinishClear("track_repository_add",
                TrackRepository_add(tracks, track),
                sectionRepository, <<>>, "none",
                Notify(eventRepository, observers, "tracks"))

\* SectionRepository.get(id) is not None
Holds(content, id) == \E i \in 1..Len(content) : content[i].id = id

\* SectionRepository.get(id), for an id that is held
SectionRepository_get(content, id) ==
    content[CHOOSE i \in 1..Len(content) : content[i].id = id]

\* what a call on the section repository leaves behind: the sections, the
\* exception and the event repository
SectionsOutcome(content, raised, repository) ==
    [error |-> raised, content |-> content, repository |-> repository]

\* the outcome of a call on the section repository handed back
FinishSections(name, r) ==
    FinishClear(name, tracks, r.content, <<>>, r.error, r.repository)

\* SectionRepository.add
SectionRepositoryAdd(section) ==
    FinishClear("section_repository_add", tracks,
                PutById(sectionRepository, section), <<>>, "none",
                Notify(eventRepository, observers, "sections"))

\* the loop of SectionRepository.add_all, from the k-th section on
RECURSIVE SectionRepository_add_loop(_, _, _)
SectionRepository_add_loop(content, sections, k) ==
    IF k > Len(sections) THEN content
    ELSE SectionRepository_add_loop(PutById(content, sections[k]), sections, k + 1)

\* SectionRepository.add_all: every section is put, the section list
\* observers are notified once, whatever the list holds
SectionRepositoryAddAll(sections) ==
    FinishClear("section_repository_add_all", tracks,
                SectionRepository_add_loop(sectionRepository, sections, 1), <<>>,
                "none", Notify(eventRepository, observers, "sections"))

\* SectionRepository.remove: del raises KeyError for an id that is not held,
\* before any observer is notified
SectionRepository_remove(content, repository, registered, id) ==
    IF ~Holds(content, id) THEN SectionsOutcome(content, "KeyError", repository)
    ELSE SectionsOutcome(DeleteById(content, id), "none",
                         Notify(repository, registered, "sections"))

SectionRepositoryRemove(id) ==
    FinishSections("section_repository_remove",
        SectionRepository_remove(sectionRepository, eventRepository, observers, id))

\* SectionRepository.update
SectionRepositoryUpdate(section) ==
    FinishClear("section_repository_update", tracks,
                PutById(sectionRepository, section), <<>>, "none",
                Notify(eventRepository, observers, "section_changed"))

\* the section with the plugin data
WithPluginData(section, plugin_data) == [section EXCEPT !.plugin_data = plugin_data]

\* plugin_data[key].update(value) if the key is held, plugin_data[key] = value
\* otherwise
MergePluginData(plugin_data, key, value) ==
    IF DictHas(plugin_data, key)
      THEN DictSet(plugin_data, key, DictUpdate(DictGet(plugin_data, key), value, 1))
    ELSE DictSet(plugin_data, key, value)

\* SectionRepository.remove_plugin_data after a call that left st: raises
\* MissingSection for an id that is not held; the key is deleted and the
\* section-changed observers are notified only if the section holds the key
remove_plugin_data(st, registered, key, section_id) ==
    IF st.error # "none" THEN st
    ELSE IF ~Holds(st.content, section_id)
      THEN SectionsOutcome(st.content, "MissingSection", st.repository)
    ELSE IF DictHas(SectionRepository_get(st.content, section_id).plugin_data, key)
      THEN SectionsOutcome(
               PutById(st.content,
                       WithPluginData(SectionRepository_get(st.content, section_id),
                           DictDel(SectionRepository_get(st.content, section_id).plugin_data,
                                   key))),
               "none", Notify(st.repository, registered, "section_changed"))
    ELSE st

\* SectionRepository._update_plugin_data after a call that left st: raises
\* MissingSection for an id that is not held; the value is set or merged and
\* the section-changed observers are notified
_update_plugin_data(st, registered, key, section_id, value) ==
    IF st.error # "none" THEN st
    ELSE IF ~Holds(st.content, section_id)
      THEN SectionsOutcome(st.content, "MissingSection", st.repository)
    ELSE SectionsOutcome(
             PutById(st.content,
                     WithPluginData(SectionRepository_get(st.content, section_id),
                         MergePluginData(
                             SectionRepository_get(st.content, section_id).plugin_data,
                             key, value))),
             "none", Notify(st.repository, registered, "section_changed"))

\* SectionRepository.update_plugin_data: the key is removed from the old
\* section if the section changes, then set or merged at the new section
update_plugin_data(st, registered, key, new_section_id, new_value, old_section_id) ==
    _update_plugin_data(
        IF new_section_id # old_section_id
          THEN remove_plugin_data(st, registered, key, old_section_id)
        ELSE st,
        registered, key, new_section_id, new_value)

SectionRepositoryUpdatePluginData(key, new_section_id, new_value, old_section_id) ==
    FinishSections("update_plugin_data",
        update_plugin_data(SectionsOutcome(sectionRepository, "none", eventRepository),
                           observers, key, new_section_id, new_value, old_section_id))

SectionRepositoryRemovePluginData(key, section_id) ==
    FinishSections("remove_plugin_data",
        remove_plugin_data(SectionsOutcome(sectionRepository, "none", eventRepository),
                           observers, key, section_id))

\* the tracks the repository holds once the track is replaced by its sub-tracks
ReplaceByCutTracks(content, track, r) == DeleteById(content, track.id) \o r.segments

\* the tracks-cut use case: the track is cut with the cutting section, the
\* original is removed from the track repository, the sub-tracks are added
\* (the track list observers are notified) and the tracks-cut observers are
\* notified
TracksCut(k) ==
    /\ k \in 1..Len(tracks)
    /\ SimpleCutTracksWithSection(EmptyTrackBuilder, <<tracks[k]>>, CutMiddle).error
         = "none"
    /\ FinishClear("tracks_cut",
                   ReplaceByCutTracks(tracks, tracks[k],
                       SimpleCutTracksWithSection(EmptyTrackBuilder, <<tracks[k]>>,
                                                  CutMiddle)),
                   sectionRepository, <<>>, "none",
                   Notify(Notify(eventRepository, observers, "tracks"), observers,
                          "tracks_cut"))

\* the intersection events handed back and published
FinishCreateIntersectionEvents(r) ==
    FinishClear("create_intersection_events", tracks,
                sectionRepository, r.events, r.error, r.repository)

\* SimpleCreateIntersectionEvents.__call__ on the tracks and sections held
CreateIntersectionEventsCall ==
    FinishCreateIntersectionEvents(
        CreateIntersectionEvents(eventRepository, tracks, sectionRepository))

NextClear ==
    \/ \E subject \in Subjects : RegisterObserver(subject)
    \/ \E track \in ClearTracks : TrackRepositoryAdd(track)
    \/ \E section \in ClearSections :
          \/ SectionRepositoryAdd(section)
          \/ SectionRepositoryRemove(section.id)
          \/ SectionRepositoryUpdate(section)
    \/ \E sections \in ClearSectionLists : SectionRepositoryAddAll(sections)
    \/ \E new_section_id, old_section_id \in PluginSectionIds,
          new_value \in PluginValues :
          SectionRepositoryUpdatePluginData(PluginKey, new_section_id, new_value,
                                            old_section_id)
    \/ \E section_id \in PluginSectionIds :
          SectionRepositoryRemovePluginData(PluginKey, section_id)
    \/ \E k \in 1..2 : TracksCut(k)
    \/ CreateIntersectionEventsCall

SpecClear == InitClear /\ [][NextClear]_vars

\* the subjects an operation notified: the section list subject unless the
\* call raised, the section-changed subject when plugin data was set, merged
\* or deleted
NotifiedSubjects(name, raised, changed) ==
    IF name = "track_repository_add" THEN {"tracks"}
    ELSE IF name \in {"section_repository_add", "section_repository_add_all",
                      "section_repository_remove"}
      THEN (IF raised = "none" THEN {"sections"} ELSE {})
    ELSE IF name = "section_repository_update" THEN {"section_changed"}
    ELSE IF name = "update_plugin_data"
      THEN (IF raised = "none" \/ changed THEN {"section_changed"} ELSE {})
    ELSE IF name = "remove_plugin_data"
      THEN (IF changed THEN {"section_changed"} ELSE {})
    ELSE IF name = "tracks_cut" THEN {"tracks", "tracks_cut"}
    ELSE {}

\* C27 as stated: after a notification of ClearAllEvents the event repository
\* is empty, and after any sequence of operations the event repository holds
\* no event added before the most recent change of the tracks or the sections
C27_NeverStale ==
    [][ /\ (/\ calls' = calls + 1
            /\ NotifiedSubjects(op', error', sectionRepository' # sectionRepository)
                 \cap Registered # {})
            => eventRepository'.events = <<>>
        /\ ~stale'
      ]_vars

\* C27 amended: an operation that notifies ClearAllEvents through a subject
\* it is registered with leaves the event repository empty; once
\* ClearAllEvents is registered with all four subjects, an event repository
\* that holds no event from before the most recent change never comes to
\* hold one
C27_ClearedWhenRegistered ==
    [][ /\ (/\ calls' = calls + 1
            /\ NotifiedSubjects(op', error', sectionRepository' # sectionRepository)
                 \cap Registered # {})
            => (eventRepository'.events = <<>> /\ ~stale')
        /\ (Registered = Subjects /\ ~stale) => ~stale'
      ]_vars

\* a section of the repository was updated while ClearAllEvents was registered
\* with every subject: the events the repository held were removed
C27_Witness ==
    /\ op = "section_repository_update"
    /\ Registered = Subjects
    /\ eventRepository.events = <<>>
    /\ Len(eventRepository.notifications) >= 2
    /\ eventRepository.notifications[Len(eventRepository.notifications)].removed # <<>>
    /\ ~stale

----------------------------------------------------------------------------
(* Specification of the single-track run over section lists that hold a     *)
(* section of a third variant                                               *)

\* a Section that is neither a LineSection nor an Area
OtherSection ==
    [id |-> "S1", plugin_data |-> EmptyDict, kind |-> "other",
     relative_offset_coordinates |-> Offsets(0, 0)]

\* the section lists of the run: one or two of a line, an area and the other
\* section
OtherSectionLists ==
    UNION { [1..n -> {LineMiddle, AreaRight, OtherSection}] : n \in 1..2 }

NextRun == \E sections \in OtherSectionLists : RunIntersectOnSingleTrack(sections)

SpecRun == Init /\ [][NextRun]_vars

\* the events of the section computed by the intersector its variant selects
EventsOfOwnIntersector(section, track) ==
    IF section.kind \in {"line", "area"}
      THEN Range(SectionActionDetector_detect(SelectDetector(NoneRecord, section),
                                              section, track).events)
      ELSE {}

\* C28: every event a single-track run returns was computed for a section of
\* the list by the intersector built from that section and chosen by its
\* variant; a section that is neither line nor area adds no event computed
\* with the intersector of a section before it
C28_EventsOfOwnSection ==
    (op = "run_intersect" /\ error = "none")
        => \A j \in 1..Len(events) :
              \E k \in 1..Len(arg) :
                 events[j] \in EventsOfOwnIntersector(arg[k], tracks[1])

----------------------------------------------------------------------------
(* Specification of the cutting engine on two tracks: one cutter instance   *)
(* is called on either track or on both, call after call                    *)

\* the first track begins with a truck, the second holds cars only
InitCutTwo ==
    /\ \E n \in 2..MaxDetections :
          \E xs \in [1..n -> Xs], other \in [1..4 -> {0, MaxX}] :
              tracks = <<CutTrackInput(n, xs, 1), ClearTrack(2, other)>>
    /\ InitCommon

SpecCutTwo == InitCutTwo /\ [][NextCut]_vars

\* the track of the repository a sub-track was cut from
OriginalOf(cut_track) == tracks[cut_track.id[1]]

\* C29: whatever calls the cutter has seen before, calls that raised
\* included, every sub-track a cutting call returns holds only detections of
\* the track it was cut from
C29_OnlyOwnDetections ==
    (op = "cut" /\ error = "none")
        => \A j \in 1..Len(cutTracks) :
              \A i \in 1..Len(cutTracks[j].detections) :
                 [cutTracks[j].detections[i]
                    EXCEPT !.track_id = OriginalOf(cutTracks[j]).id]
                   \in Range(OriginalOf(cutTracks[j]).detections)

----------------------------------------------------------------------------
(* Specification of the track repositories: instances are constructed with  *)
(* and without a dict of the caller's, tracks are added to any of them      *)

\* the track lists added: one or two of two tracks and of another track
\* under the id of the first
RepositoryTrackLists ==
    UNION { [1..n -> ClearTracks] : n \in 1..2 }

InitRepository ==
    /\ tracks = <<>>
    /\ InitCommon

\* a call on a track repository returned
FinishRepository(name, input, repositories) ==
    /\ op' = name
    /\ arg' = input
    /\ trackRepositories' = repositories
    /\ UNCHANGED <<tracks, events, error, eventBuilder, trackBuilder, cutTracks,
                   calls, tasks, taken, finished, results, eventRepository,
                   sectionRepository, observers, stale>>

\* TrackRepository()
ConstructRepository ==
    /\ Len(trackRepositories.instances) < MaxRepositories
    /\ FinishRepository("TrackRepository", <<>>, TrackRepository_init(trackRepositories))

\* TrackRepository({})
ConstructRepositoryWith ==
    /\ Len(trackRepositories.instances) < MaxRepositories
    /\ FinishRepository("TrackRepository", <<<<>>>>,
                        TrackRepository_init_with(trackRepositories, <<>>))

\* TrackRepository.add of the instance r
RepositoryAdd(r, track) ==
    /\ r <= Len(trackRepositories.instances)
    /\ FinishRepository("add", <<r>>,
                        TrackRepository_add_all(trackRepositories, r, <<track>>))

\* TrackRepository.add_all of the instance r
RepositoryAddAll(r, new_tracks) ==
    /\ r <= Len(trackRepositories.instances)
    /\ FinishRepository("add_all", <<r>>,
                        TrackRepository_add_all(trackRepositories, r, new_tracks))

NextRepository ==
    \/ ConstructRepository
    \/ ConstructRepositoryWith
    \/ \E r \in 1..MaxRepositories :
          \/ \E track \in ClearTracks : RepositoryAdd(r, track)
          \/ \E new_tracks \in RepositoryTrackLists : RepositoryAddAll(r, new_tracks)

SpecRepository == InitRepository /\ [][NextRepository]_vars

\* the instance was constructed without a tracks argument
ConstructedWithoutTracks(repositories, r) == repositories.instances[r] = 1

\* C30: adding tracks to a TrackRepository constructed without a tracks
\* argument leaves get_all of every other TrackRepository constructed without
\* one as it was
C30_RepositoriesIndependent ==
    [][ op' \in {"add", "add_all"}
            => \A s \in 1..Len(trackRepositories.instances) :
                  (/\ s # arg'[1]
                   /\ ConstructedWithoutTracks(trackRepositories, s)
                   /\ ConstructedWithoutTracks(trackRepositories, arg'[1]))
                     => get_all(trackRepositories', s) = get_all(trackRepositories, s)
      ]_vars

====
